---- MODULE Spec2Model ----
(***************************************************************************)
(* Model of the simplyplural daemon core (src/src/simplyplural/daemon.py): *)
(* DaemonState (the State Store), the part of WebSocketManager that feeds  *)
(* it (message_handler), the reads served by UnixSocketServer and the      *)
(* disk cache (cache_manager.py) that survives a restart of the process.   *)
(*                                                                         *)
(* A Python dict is a sequence of [k, v] pairs (dicts keep insertion       *)
(* order); a JSON object is a TLA+ record whose DOMAIN is its key set.     *)
(* The asyncio event loop is cooperative: a task runs until it reaches an  *)
(* await that really suspends, so the steps of handle_update are separate  *)
(* actions and the other tasks may only run where Suspends(ws_pc) holds.   *)
(***************************************************************************)
EXTENDS Integers, Sequences, FiniteSets, TLC

\* ---------------------------------------------------------------- bounds
MaxUpdates  == 2   \* results the server sends in a behaviour
MaxRestarts == 1   \* process restarts
MaxTime     == 2   \* largest value of the clock read by time.time()
MaxReads    == 1   \* client connections served per daemon process
MaxReconnects == 1 \* reconnects of the websocket per daemon process
MaxFails    == 8   \* consecutive connection attempts that fail
MaxDaemonFails == 2 \* the same while the whole daemon is modelled
MaxConns    == 2   \* connections the socket server accepts, open or closed

\* ------------------------------------------- constants of daemon_protocol
WS_RECONNECT_INITIAL_DELAY == 1

WS_RECONNECT_MAX_DELAY == 60

WS_RECONNECT_MULTIPLIER == 2

\* ------------------------------------------------------------ input data
Ids == {"f1", "f2"}

NoId == ""          \* the falsy result of entry.get('id') or entry.get('_id')

EmptyDict == [x \in {} |-> 0]

cAlice  == [member |-> "m1", live |-> TRUE, startTime |-> 1]
cBob    == [member |-> "m2", live |-> TRUE, startTime |-> 2]
cEnded  == [member |-> "m1", live |-> FALSE, startTime |-> 1]
cBare   == [member |-> "m2"]

\* frontHistory documents as the websocket sends them (no id inside)
FrontContents == {cAlice, cBob, cEnded, cBare}

eAlice == [name |-> "Alice"]
eBob   == [name |-> "Bob", pronouns |-> "he"]

\* member / custom front documents as the websocket sends them
EntityContents == {eAlice, eBob}

\* GET /fronters as api_client.get_fronters returns it: {id, content, name}
Wrap(id, c, n) == [id |-> id, content |-> c, name |-> n]

RestFronterLists ==
    { <<>>,
      <<Wrap("f1", cAlice, "Alice")>>,
      <<Wrap("f1", cAlice, "Alice"), Wrap("f2", cBob, "Bob")>> }

RestEntityLists ==
    { <<>>, <<[id |-> "f1", content |-> eAlice]>> }

Targets == {"frontHistory", "members", "customFronts", "boardMessages"}

Ops == {"insert", "update", "delete"}

ContentsFor(target, op) ==
    IF op = "delete" THEN {EmptyDict}
    ELSE IF target = "frontHistory" THEN FrontContents
    ELSE IF target = "boardMessages" THEN {EmptyDict}
    ELSE EntityContents

\* boardMessages is a collection the store does not track: one id is enough
IdsFor(target) == IF target = "boardMessages" THEN {"f1"} ELSE Ids

\* one element of the results array of an update frame
ResultsFor(target) ==
    UNION { { [operationType |-> op, id |-> i, content |-> c] :
                i \in IdsFor(target), c \in ContentsFor(target, op) } : op \in Ops }

\* the results arrays of the frames the server sends: every single result,
\* and every pair of results drawn from BatchResults
BatchResults(target) ==
    { r \in ResultsFor(target) :
        /\ r.id = "f1"
        /\ r.operationType # "update"
        /\ r.content \in {EmptyDict, cAlice, eAlice} }

FrameResults(target) ==
    { <<r>> : r \in ResultsFor(target) } \cup
    { <<r1, r2>> : r1 \in BatchResults(target), r2 \in BatchResults(target) }

\* ------------------------------------------------------- python helpers
\* dict.get(key, default)
Get(d, key, default) == IF key \in DOMAIN d THEN d[key] ELSE default

Keys(d) == { d[i].k : i \in 1..Len(d) }

RECURSIVE Lookup(_, _)
Lookup(d, key) ==
    IF d = <<>> THEN EmptyDict
    ELSE IF Head(d).k = key THEN Head(d).v
    ELSE Lookup(Tail(d), key)

\* list(d.values())
Values(d) == [i \in 1..Len(d) |-> d[i].v]

\* d[key] = value : an existing key keeps its position, a new key goes last
DictSet(d, key, value) ==
    IF key \in Keys(d)
    THEN [i \in 1..Len(d) |-> IF d[i].k = key THEN [k |-> key, v |-> value] ELSE d[i]]
    ELSE Append(d, [k |-> key, v |-> value])

\* del d[key]
DictDel(d, key) == SelectSeq(d, LAMBDA p : p.k # key)

\* ------------------------------------------------------------ the state
VARIABLES
    api,               \* DaemonState.api is set (a REST client was given)
    cache,             \* DaemonState.cache is set (a CacheManager was given)
    phase,             \* "new": constructed, "running": initialize() returned
    current_fronters,  \* [none, items]: None or a list
    members,           \* dict id -> entry
    custom_fronts,     \* dict id -> entry
    front_history,     \* dict id -> entry (the ledger)
    last_update_times, \* dict key -> time
    update_count,
    disk_fronters,     \* cache file 'fronters': [present, data]
    disk_members,      \* cache file 'members'
    disk_custom_fronts,\* cache file 'custom_fronts'
    disk_items,        \* cache files 'member_<id>', 'custom_front_<id>'
    now,               \* the clock time.time() reads
    ws_pc,             \* position of the websocket task
    frame,             \* the update frame being processed: [target, results]
    idx,               \* position of the for loop in frame.results
    messages_received,
    last_message_time,
    reconnect_count,
    client_count,      \* UnixSocketServer.client_count
    running,           \* WebSocketManager.running
    authenticated,     \* WebSocketManager.authenticated
    ws_open,           \* WebSocketManager.ws is not None
    reconnect_delay,   \* WebSocketManager.reconnect_delay
    run_pc,            \* position of WebSocketManager.run()
    stop_pc,           \* position of WebSocketManager.stop()
    start_pc,          \* position of SimplyPluralDaemon.start()
    main_pc,           \* position of main()
    shutdown_event,    \* main(): shutdown_event is set
    socket_file,       \* the socket file exists
    listening,         \* the unix server accepts connections
    srv_server,        \* UnixSocketServer.server is not None
    srv_running,       \* UnixSocketServer.running
    run_hist,          \* history: connection attempts, waits and stops of the client
    conns,             \* the connections of the socket server: one handle_client task each
    procs,             \* the daemon processes started for the profile
    sock_owner,        \* the process whose listener the file at the socket path names, 0: no file
    cli,               \* the `sp daemon` command in progress and what it reported
    tasks,             \* the keepalive_loop and message_handler tasks that are alive
    rx,                \* history: the latest frame message_handler received
    twin,              \* two stores that receive frontHistory events of their own
    wire,              \* a Request or Response, its JSON text and what is read back from it
    restarts,          \* history: process restarts so far
    arrived,           \* history: results the server has sent so far
    applied_log,       \* history: [seq, conn] of each handle_update call of this process,
                       \*   in call order: arrival number, connection it came on
    hu_running,        \* history: handle_update executions begun and not returned
    calls_done,        \* history: handle_update calls that returned
    last,              \* history: the latest handle_update call
    last_read,         \* history: the latest response of the socket server
    init_info,         \* history: what initialize() loaded, whether a frontHistory update followed
    old_run            \* history: the store of the previous process at its exit

store_vars == <<current_fronters, members, custom_fronts, front_history,
                last_update_times, update_count>>

disk_vars == <<disk_fronters, disk_members, disk_custom_fronts, disk_items>>

ws_vars == <<ws_pc, frame, idx, messages_received, last_message_time, reconnect_count>>

hist_vars == <<restarts, arrived, applied_log, hu_running, calls_done, last,
               last_read, init_info, old_run>>

client_vars == <<running, authenticated, ws_open, reconnect_delay, run_pc, stop_pc>>

daemon_vars == <<start_pc, main_pc, shutdown_event, socket_file, listening,
                 srv_server, srv_running>>

life_vars == <<client_vars, daemon_vars, run_hist>>

profile_vars == <<procs, sock_owner, cli>>

frame_vars == <<rx, twin, wire>>

ext_vars == <<conns, profile_vars, frame_vars, tasks>>

\* everything but the profile and the frame variables
own_vars_but_wire == <<api, cache, phase, store_vars, disk_vars, now, ws_vars, client_count,
                       hist_vars, life_vars, conns, tasks>>

\* the state of the daemon process that is followed step by step
own_vars == <<api, cache, phase, store_vars, disk_vars, now, ws_vars, client_count,
                 hist_vars, life_vars, conns, frame_vars, tasks>>

vars == <<api, cache, phase, store_vars, disk_vars, now, ws_vars, client_count, hist_vars,
          life_vars, ext_vars>>

\* ------------------------------------------------- DaemonState helpers
\* entry.get('id') or entry.get('_id')
EntryId(e) ==
    LET a == Get(e, "id", NoId)
    IN  IF a # NoId THEN a ELSE Get(e, "_id", NoId)

\* _seed_front_history: front_history[entry_id] = entry.get('content', entry)
\* for every entry that has an id
RECURSIVE SeedFrontHistory(_, _)
SeedFrontHistory(fh, fronters_data) ==
    IF fronters_data = <<>> THEN fh
    ELSE LET entry == Head(fronters_data)
             entry_id == EntryId(entry)
         IN  SeedFrontHistory(
                 IF entry_id # NoId
                 THEN DictSet(fh, entry_id, Get(entry, "content", entry))
                 ELSE fh,
                 Tail(fronters_data))

\* {m.get('id') or m.get('_id'): m for m in data}
RECURSIVE DictFromList(_, _)
DictFromList(d, data) ==
    IF data = <<>> THEN d
    ELSE DictFromList(DictSet(d, EntryId(Head(data)), Head(data)), Tail(data))

\* [entry for entry in front_history.values() if entry.get('live', False)]
LiveFronts(fh) == SelectSeq(Values(fh), LAMBDA e : Get(e, "live", FALSE))

StartTime(e) == Get(e, "startTime", 0)

\* one step of the stable sort: e goes behind every element that does not
\* start earlier than e
InsertByStartTime(sorted, e) ==
    LET n == Cardinality({ i \in 1..Len(sorted) : StartTime(sorted[i]) >= StartTime(e) })
    IN  SubSeq(sorted, 1, n) \o <<e>> \o SubSeq(sorted, n + 1, Len(sorted))

\* list.sort(key=lambda x: x.get('startTime', 0), reverse=True)
RECURSIVE SortByStartTime(_, _)
SortByStartTime(sorted, rest) ==
    IF rest = <<>> THEN sorted
    ELSE SortByStartTime(InsertByStartTime(sorted, Head(rest)), Tail(rest))

\* the content of a result whose 'content' is null: None, which has no get
cNull == [py_none |-> TRUE]

\* entry.get('live', False) raises AttributeError for an entry that is no dict
RebuildRaises(fh) == \E i \in 1..Len(fh) : "py_none" \in DOMAIN fh[i].v

\* the list _handle_front_history_update assigns to current_fronters
RebuildFronters(fh) == SortByStartTime(<<>>, LiveFronts(fh))

\* mutant: the entry is stored as one more pair, like a list append
Upsert_Append(d, obj_id, content) == Append(d, [k |-> obj_id, v |-> content])

\* mutant: the new content is merged into the stored entry, like dict.update
Upsert_Merge(d, obj_id, content) ==
    LET old == Lookup(d, obj_id)
    IN  DictSet(d, obj_id,
                [f \in DOMAIN old \cup DOMAIN content |->
                    IF f \in DOMAIN content THEN content[f] ELSE old[f]])

\* self.<dict>[obj_id] = content
Upsert(d, obj_id, content) == DictSet(d, obj_id, content)

\* mutant: the delete branch forgets the del
Remove_Keep(d, obj_id) == d

\* if obj_id in self.<dict>: del self.<dict>[obj_id]
Remove(d, obj_id) == IF obj_id \in Keys(d) THEN DictDel(d, obj_id) ELSE d

\* mutant: the counter is bumped inside the branches of the tracked targets
NextUpdateCount_Tracked(target, n) ==
    IF target \in {"frontHistory", "members", "customFronts"} THEN n + 1 ELSE n

\* self.update_count += 1
NextUpdateCount(target, n) == n + 1

\* target.replace('frontHistory', 'front_history').replace('customFronts', 'custom_fronts')
CollectionKey(target) ==
    IF target = "frontHistory" THEN "front_history"
    ELSE IF target = "customFronts" THEN "custom_fronts"
    ELSE target

\* d[key] = value for the timestamp dict, a function from its keys
SetTime(lut, key, t) ==
    [k \in DOMAIN lut \cup {key} |-> IF k = key THEN t ELSE lut[k]]

\* get_fronters(): {'fronters': current_fronters or [], 'timestamp': ...}
GetFronters(cf, lut) ==
    [fronters  |-> IF cf.none THEN <<>> ELSE cf.items,
     timestamp |-> Get(lut, "fronters", 0)]

\* get_members() / get_custom_fronts()
GetEntities(d, lut, key) ==
    [items |-> Values(d), timestamp |-> Get(lut, key, 0)]

\* get_status()
GetStatus(cf, mem, cus, lut, n) ==
    [update_count        |-> n,
     fronters_count      |-> IF cf.none THEN 0 ELSE Len(cf.items),
     members_count       |-> Len(mem),
     custom_fronts_count |-> Len(cus),
     last_updates        |-> lut]

\* ------------------------------------------------------------ disk cache
NoFile == [present |-> FALSE, data |-> <<>>]

File(data) == [present |-> TRUE, data |-> data]

\* CacheManager.get from a new process: the file's data unless the entry
\* is missing or older than its ttl; None reads as the empty list, both
\* are falsy where initialize() tests the result
CacheGet(file, expired) ==
    IF file.present /\ ~expired THEN file.data ELSE <<>>

\* -------------------------------------------------------- history values
Snapshot ==
    [front_history    |-> front_history,
     members          |-> members,
     custom_fronts    |-> custom_fronts,
     current_fronters |-> current_fronters]

EmptySnapshot ==
    [front_history    |-> <<>>,
     members          |-> <<>>,
     custom_fronts    |-> <<>>,
     current_fronters |-> [none |-> TRUE, items |-> <<>>]]

NoCall ==
    [valid |-> FALSE, done |-> FALSE, target |-> "", op |-> "", id |-> "",
     content |-> EmptyDict, dup |-> FALSE, prior |-> "none", pre |-> EmptySnapshot,
     at |-> 0]

NoRead ==
    [valid |-> FALSE, cmd |-> "", status |-> "", pong |-> FALSE, run |-> "",
     at |-> "", after |-> 0, count |-> 0, live |-> 0,
     torn |-> FALSE]

\* the seeding of initialize() when a REST request raised: fail_at: the
\* request that raised (0: none), cfail: the cache read that raised (0:
\* none), rest: what the requests return, files: the cache files before,
\* exp: the fronters entry and the entity entries are older than their ttl
NoSeed ==
    [fail_at |-> 0, cfail |-> 0, rest |-> <<>>, files |-> <<>>, exp |-> <<>>]

\* working: what initialize() leaves in memory when every cache write
\* returns; wfail: the cache write of initialize() that raised (0: none)
NoInit ==
    [fronters_from |-> "none", seeded |-> <<>>, fh_applied |-> FALSE,
     working |-> [cf |-> [none |-> TRUE, items |-> <<>>], fh |-> <<>>, mem |-> <<>>,
                  cus |-> <<>>],
     wfail |-> 0, seed |-> NoSeed]

NoOldRun == [exists |-> FALSE, fronters |-> <<>>, wrote_cache |-> FALSE]

\* history of the run loop: closes: sessions the server ended; fails: failed
\* connection attempts since the last authentication; pre_fails: the value of
\* fails when the last authentication succeeded; seq: backoff sleeps begun
\* since the last authentication; wait: seconds of the latest backoff sleep;
\* last_fail: why the latest attempt or session ended; stopped: stop() was
\* called; after_stop / after_violation: a connection attempt began after
\* stop() / after an 'Authentication violation' reply; reports: error logs of
\* an authentication violation; authed: an authentication succeeded; cut:
\* stop() closed the socket the attempt or session in progress uses
NoRunHist ==
    [closes |-> 0, fails |-> 0, pre_fails |-> 0, seq |-> 0, wait |-> 0,
     last_fail |-> "none", stopped |-> FALSE, after_stop |-> FALSE,
     violated |-> FALSE, after_violation |-> FALSE, reports |-> 0,
     authed |-> FALSE, cut |-> FALSE]

\* ---- the connections of the socket server
ConnIds == 1..MaxConns

\* the request has no key 'request_id'
NoRid == ""

\* the key 'command' is missing
NoCommand == ""

\* no request was read
NoPayload == [kind |-> "none", command |-> NoCommand, rid |-> NoRid]

\* Response.data and Response.error: None or a value
NullData == [null |-> TRUE, kind |-> ""]

NullError == [null |-> TRUE, words |-> <<>>]

NoResponse == [status |-> "none", request_id |-> "", data |-> NullData, error |-> NullError]

\* a connection: pc: where its handle_client task is; payload: what it read;
\* resp: the response it wrote (written: how many); stuck: the response does
\* not fit into the buffers of the socket and the transport and the client
\* does not read it
NoConn ==
    [pc |-> "none", client |-> "", payload |-> NoPayload, written |-> 0,
     resp |-> NoResponse, stuck |-> FALSE]

NoConns == [c \in ConnIds |-> NoConn]

\* the daemon processes a profile can have at a time in the model
MaxProcs == 2

ProcIds == 1..MaxProcs

\* no session: neither loop runs
NoTasks == [keepalive |-> 0, handler |-> 0]

\* no frame was received
NoRx == [valid |-> FALSE, f |-> <<>>, outcome |-> "none", calls_before |-> 0]

\* two empty ledgers
NoTwin == [a |-> <<>>, b |-> <<>>, na |-> 0, nb |-> 0]

NoWire == [pc |-> "none", kind |-> "none", obj |-> <<>>, text |-> <<>>, got |-> <<>>]

\* no `sp daemon` command has run
NoCli ==
    [cmd |-> "none", pc |-> "idle", stopped |-> "none", reported |-> "none", target |-> 0,
     spawned |-> 0]

\* ------------------------------------------------------------------ Init
\* DaemonState.__init__, WebSocketManager.__init__, UnixSocketServer.__init__;
\* the cache directory is empty, or holds the fronters `sp fronting` wrote
\* (cli.py: the list GET /fronters returned). main() waits for the shutdown
\* event and start() has constructed the store and called initialize()
Init ==
    /\ api \in BOOLEAN
    /\ cache \in BOOLEAN
    /\ phase = "new"
    /\ current_fronters = [none |-> TRUE, items |-> <<>>]
    /\ members = <<>>
    /\ custom_fronts = <<>>
    /\ front_history = <<>>
    /\ last_update_times =
         [k \in {"fronters", "members", "custom_fronts", "front_history"} |-> 0]
    /\ update_count = 0
    /\ disk_fronters \in
         IF cache THEN {NoFile, File(<<Wrap("f1", cAlice, "Alice")>>)} ELSE {NoFile}
    /\ disk_members = NoFile
    /\ disk_custom_fronts = NoFile
    /\ disk_items = <<>>
    /\ now = 1
    /\ ws_pc = "disconnected"
    /\ frame = [target |-> "", results |-> <<>>]
    /\ idx = 0
    /\ messages_received = 0
    /\ last_message_time = 0
    /\ reconnect_count = 0
    /\ client_count = 0
    /\ running = FALSE
    /\ authenticated = FALSE
    /\ ws_open = FALSE
    /\ reconnect_delay = WS_RECONNECT_INITIAL_DELAY
    /\ run_pc = "not_started"
    /\ stop_pc = "none"
    /\ start_pc = "seeding"
    /\ main_pc = "wait"
    /\ shutdown_event = FALSE
    /\ socket_file = FALSE
    /\ listening = FALSE
    /\ srv_server = FALSE
    /\ srv_running = FALSE
    /\ run_hist = NoRunHist
    /\ conns = NoConns
    /\ procs = [p \in ProcIds |-> "none"]
    /\ sock_owner = 0
    /\ cli = NoCli
    /\ tasks = NoTasks
    /\ rx = NoRx
    /\ twin = NoTwin
    /\ wire = NoWire
    /\ restarts = 0
    /\ arrived = 0
    /\ applied_log = <<>>
    /\ hu_running = 0
    /\ calls_done = 0
    /\ last = NoCall
    /\ last_read = NoRead
    /\ init_info = NoInit
    /\ old_run = NoOldRun

\* ------------------------------------------------------------ initialize
\* the part of the state initialize() works on
InitState ==
    [cf |-> current_fronters, fh |-> front_history, mem |-> members,
     cus |-> custom_fronts, lut |-> last_update_times,
     dF |-> disk_fronters, dM |-> disk_members, dC |-> disk_custom_fronts,
     from |-> "none", seeded |-> <<>>, wrote |-> {}]

\* `if fronters_data:` block of the REST branch (fromApi) or of the cache
\* branches, which set no 'fronters' timestamp and write no cache
LoadFronters(s, data, fromApi) ==
    IF data = <<>> THEN s
    ELSE [s EXCEPT
            !.cf = [none |-> FALSE, items |-> data],
            !.fh = SeedFrontHistory(s.fh, data),
            !.lut = SetTime(IF fromApi THEN SetTime(s.lut, "fronters", now) ELSE s.lut,
                            "front_history", now),
            !.dF = IF fromApi /\ cache THEN File(data) ELSE @,
            !.wrote = IF fromApi /\ cache THEN @ \cup {"fronters"} ELSE @,
            !.from = IF fromApi THEN "rest"
                     ELSE IF "fronters" \in s.wrote THEN "rest+cache"
                     ELSE "cache",
            !.seeded = data]

LoadMembers(s, data, fromApi) ==
    IF data = <<>> THEN s
    ELSE [s EXCEPT
            !.mem = DictFromList(<<>>, data),
            !.lut = IF fromApi THEN SetTime(s.lut, "members", now) ELSE @,
            !.dM = IF fromApi /\ cache THEN File(data) ELSE @,
            !.wrote = IF fromApi /\ cache THEN @ \cup {"members"} ELSE @]

LoadCustomFronts(s, data, fromApi) ==
    IF data = <<>> THEN s
    ELSE [s EXCEPT
            !.cus = DictFromList(<<>>, data),
            !.lut = IF fromApi THEN SetTime(s.lut, "custom_fronts", now) ELSE @,
            !.dC = IF fromApi /\ cache THEN File(data) ELSE @,
            !.wrote = IF fromApi /\ cache THEN @ \cup {"custom_fronts"} ELSE @]

\* the cache branches: an entry written by this process is still fresh,
\* an older one may have outlived its ttl
LoadFromCache(s, expF, expE) ==
    LET s1 == LoadFronters(s, CacheGet(s.dF, expF /\ "fronters" \notin s.wrote), FALSE)
        s2 == LoadMembers(s1, CacheGet(s.dM, expE /\ "members" \notin s.wrote), FALSE)
    IN  LoadCustomFronts(s2, CacheGet(s.dC, expE /\ "custom_fronts" \notin s.wrote), FALSE)

\* the REST branch; the failAt-th request raises (0: none does), and the
\* except block falls back to the cache when there is one
LoadFromApi(s, restF, restM, restC, failAt, expF, expE) ==
    LET s1 == IF failAt = 1 THEN s ELSE LoadFronters(s, restF, TRUE)
        s2 == IF failAt \in {1, 2} THEN s1 ELSE LoadMembers(s1, restM, TRUE)
        s3 == IF failAt \in {1, 2, 3} THEN s2 ELSE LoadCustomFronts(s2, restC, TRUE)
    IN  IF failAt # 0 /\ cache THEN LoadFromCache(s3, expF, expE) ELSE s3

\* the wfail-th of self.cache.set_fronters, set_members, set_custom_fronts
\* raises: the block made its assignments, the file is not written
WriteRaised(before, after) ==
    [after EXCEPT !.dF = before.dF, !.dM = before.dM, !.dC = before.dC,
                  !.wrote = before.wrote]

\* the REST branch with a cache whose wfail-th write raises: the exception
\* ends the try block like one of a request, and the except block falls
\* back to the cache
LoadFromApiWriteRaises(s, restF, restM, restC, wfail, expF, expE) ==
    LET s1 == LoadFronters(s, restF, TRUE)
        s2 == LoadMembers(s1, restM, TRUE)
        s3 == LoadCustomFronts(s2, restC, TRUE)
    IN  IF wfail = 1 /\ restF # <<>> THEN LoadFromCache(WriteRaised(s, s1), expF, expE)
        ELSE IF wfail = 2 /\ restM # <<>> THEN LoadFromCache(WriteRaised(s1, s2), expF, expE)
        ELSE IF wfail = 3 /\ restC # <<>> THEN LoadFromCache(WriteRaised(s2, s3), expF, expE)
        ELSE s3

\* the ledger, the two maps and the view of a result of initialize()
InMemory(s) == [cf |-> s.cf, fh |-> s.fh, mem |-> s.mem, cus |-> s.cus]

InitializeResult(restF, restM, restC, failAt, expF, expE) ==
    IF api THEN LoadFromApi(InitState, restF, restM, restC, failAt, expF, expE)
    ELSE IF cache THEN LoadFromCache(InitState, expF, expE)
    ELSE InitState

Initialize ==
    /\ phase = "new"
    /\ \E restF \in (IF api THEN RestFronterLists ELSE {<<>>}),
          restM \in (IF api THEN RestEntityLists ELSE {<<>>}),
          restC \in (IF api THEN RestEntityLists ELSE {<<>>}),
          failAt \in (IF api THEN 0..3 ELSE {0}),
          expF \in (IF cache THEN BOOLEAN ELSE {FALSE}),
          expE \in (IF cache THEN BOOLEAN ELSE {FALSE}) :
        LET s == InitializeResult(restF, restM, restC, failAt, expF, expE)
        IN  /\ current_fronters' = s.cf
            /\ front_history' = s.fh
            /\ members' = s.mem
            /\ custom_fronts' = s.cus
            /\ last_update_times' = s.lut
            /\ disk_fronters' = s.dF
            /\ disk_members' = s.dM
            /\ disk_custom_fronts' = s.dC
            /\ init_info' = [fronters_from |-> s.from, seeded |-> s.seeded,
                             fh_applied |-> FALSE, working |-> InMemory(s), wfail |-> 0,
                             seed |-> NoSeed]
    /\ phase' = "running"
    /\ UNCHANGED <<api, cache, ext_vars, update_count, disk_items, now, ws_vars, client_count,
                   restarts, arrived, applied_log, hu_running, calls_done, last,
                   last_read, old_run, life_vars>>

\* initialize() with a REST client whose requests succeed and a cache
\* manager one of whose writes raises
InitializeWriteRaises ==
    /\ phase = "new"
    /\ api /\ cache
    /\ \E restF \in RestFronterLists, restM \in RestEntityLists, restC \in RestEntityLists,
          wfail \in 1..3, expF \in BOOLEAN, expE \in BOOLEAN :
        LET s == LoadFromApiWriteRaises(InitState, restF, restM, restC, wfail, expF, expE)
            w == InitializeResult(restF, restM, restC, 0, expF, expE)
        IN  /\ wfail = 1 => restF # <<>>
            /\ wfail = 2 => restM # <<>>
            /\ wfail = 3 => restC # <<>>
            /\ current_fronters' = s.cf
            /\ front_history' = s.fh
            /\ members' = s.mem
            /\ custom_fronts' = s.cus
            /\ last_update_times' = s.lut
            /\ disk_fronters' = s.dF
            /\ disk_members' = s.dM
            /\ disk_custom_fronts' = s.dC
            /\ init_info' = [fronters_from |-> s.from, seeded |-> s.seeded,
                             fh_applied |-> FALSE, working |-> InMemory(w), wfail |-> wfail,
                             seed |-> NoSeed]
    /\ phase' = "running"
    /\ UNCHANGED <<api, cache, ext_vars, update_count, disk_items, now, ws_vars, client_count,
                   restarts, arrived, applied_log, hu_running, calls_done, last,
                   last_read, old_run, life_vars>>

\* the cache branch when the cfail-th of cache.get_fronters, get_members,
\* get_custom_fronts raises (0: none does): the reads before it took
\* effect, the except block logs
LoadFromCacheRaises(s, cfail, expF, expE) ==
    LET s1 == IF cfail = 1 THEN s
              ELSE LoadFronters(s, CacheGet(s.dF, expF /\ "fronters" \notin s.wrote), FALSE)
        s2 == IF cfail \in {1, 2} THEN s1
              ELSE LoadMembers(s1, CacheGet(s.dM, expE /\ "members" \notin s.wrote), FALSE)
    IN  IF cfail \in {1, 2, 3} THEN s2
        ELSE LoadCustomFronts(s2, CacheGet(s.dC, expE /\ "custom_fronts" \notin s.wrote),
                              FALSE)

\* mutant: the except block of the REST branch only logs
SeedFallback_LogOnly(s, cfail, expF, expE) == s

\* except Exception of the REST branch: with a cache, the cache is read
SeedFallback(s, cfail, expF, expE) ==
    IF cache THEN LoadFromCacheRaises(s, cfail, expF, expE) ELSE s

\* the REST branch when the failAt-th request raises
LoadFromApiRaises(s, restF, restM, restC, failAt, cfail, expF, expE) ==
    LET s1 == IF failAt = 1 THEN s ELSE LoadFronters(s, restF, TRUE)
        s2 == IF failAt \in {1, 2} THEN s1 ELSE LoadMembers(s1, restM, TRUE)
    IN  SeedFallback(s2, cfail, expF, expE)

\* initialize() with a REST client one of whose requests raises, with or
\* without a cache manager, whose reads can raise too
InitializeRestRaises ==
    /\ phase = "new"
    /\ api
    /\ \E restF \in RestFronterLists, restM \in RestEntityLists, failAt \in 1..3,
          cfail \in (IF cache THEN 0..3 ELSE {0}),
          expF \in (IF cache THEN BOOLEAN ELSE {FALSE}),
          expE \in (IF cache THEN BOOLEAN ELSE {FALSE}) :
        LET s == LoadFromApiRaises(InitState, restF, restM, <<>>, failAt, cfail, expF, expE)
        IN  /\ current_fronters' = s.cf
            /\ front_history' = s.fh
            /\ members' = s.mem
            /\ custom_fronts' = s.cus
            /\ last_update_times' = s.lut
            /\ disk_fronters' = s.dF
            /\ disk_members' = s.dM
            /\ disk_custom_fronts' = s.dC
            /\ init_info' = [fronters_from |-> s.from, seeded |-> s.seeded,
                             fh_applied |-> FALSE, working |-> InMemory(s), wfail |-> 0,
                             seed |-> [fail_at |-> failAt, cfail |-> cfail,
                                       rest |-> <<restF, restM>>,
                                       files |-> <<disk_fronters, disk_members,
                                                   disk_custom_fronts>>,
                                       exp |-> <<expF, expE>>]]
    /\ phase' = "running"
    /\ UNCHANGED <<api, cache, ext_vars, update_count, disk_items, now, ws_vars, client_count,
                   restarts, arrived, applied_log, hu_running, calls_done, last,
                   last_read, old_run, life_vars>>

\* before the daemon starts the command line client, which shares the cache
\* directory, cached the members or the custom fronts it fetched
CliCached ==
    /\ phase = "new"
    /\ cache
    /\ \/ disk_members = NoFile /\ disk_members' = File(<<[id |-> "f1", content |-> eAlice]>>)
          /\ UNCHANGED disk_custom_fronts
       \/ disk_custom_fronts = NoFile
          /\ disk_custom_fronts' = File(<<[id |-> "f2", content |-> eBob]>>)
          /\ UNCHANGED disk_members
    /\ UNCHANGED <<api, cache, ext_vars, phase, store_vars, disk_fronters, disk_items, now,
                   ws_vars, client_count, hist_vars, life_vars>>

\* ------------------------------------------------------ WebSocketManager
\* where the websocket task is suspended in an await that yields to the
\* event loop: the backoff sleep / connect, and ws.recv(). handle_update and
\* the handlers it awaits contain no such await.
\* mutant: the handler awaits something that yields (a cache write moved to
\* a thread) between the change of the ledger and the rebuild of the view
Suspends_MidUpdate(pc) == pc \in {"disconnected", "recv", "handler_done", "hu_derive"}

Suspends(pc) == pc \in {"disconnected", "recv", "handler_done"}

\* mutant: the handler reads with a blocking call
HoldsLoop_BlockingRead(pc) == pc = "reading"

\* a handle_client task that waits for its client holds the event loop:
\* never, its waits are awaits (reader.read, writer.drain, writer.wait_closed)
HoldsLoop(pc) == FALSE

\* no handle_client task holds the event loop
NoHandlerHolds == \A c \in ConnIds : ~HoldsLoop(conns[c].pc)

\* while self.running and self.ws and self.authenticated: the handler waits
\* in recv() again or returns
LoopTop(r, w, a) == IF r /\ w /\ a THEN "recv" ELSE "handler_done"

\* mutant: the results are taken last to first
ForOrder_Reversed(results) == [j \in 1..Len(results) |-> results[Len(results) + 1 - j]]

\* for result_data in update_msg.results
ForOrder(results) == results

\* history: number the results of a frame in arrival order
Tagged(results, base) ==
    [j \in 1..Len(results) |-> [seq |-> base + j, r |-> results[j]]]

\* ---- the run loop: connect(), the session, the backoff
Min(a, b) == IF a < b THEN a ELSE b

\* mutant: the doubled delay is not capped
NextDelay_NoCap(d) == d * WS_RECONNECT_MULTIPLIER

\* min(self.reconnect_delay * WS_RECONNECT_MULTIPLIER, WS_RECONNECT_MAX_DELAY)
NextDelay(d) == Min(d * WS_RECONNECT_MULTIPLIER, WS_RECONNECT_MAX_DELAY)

\* mutant: a successful authentication leaves the delay as it is
DelayAfterAuth_Keep(d) == d

\* self.reconnect_delay = WS_RECONNECT_INITIAL_DELAY  # Reset backoff
DelayAfterAuth(d) == WS_RECONNECT_INITIAL_DELAY

\* mutant: the loop gives up after an attempt or a session has ended
StillRunning_GiveUp(r) == FALSE

\* `if self.running:` after an attempt or a session, and `while self.running:`
StillRunning(r) == r

\* the ways connect() fails once the socket is open
AuthFailures == {"auth_timeout", "violation", "unexpected", "closed_in_auth"}

\* the ways a session ends while the client runs
SessionEnds == {"closed", "keepalive_error", "handler_error"}

\* history: a connection attempt begins
BeginAttempt(h) ==
    [h EXCEPT !.after_stop = @ \/ h.stopped,
              !.after_violation = @ \/ h.violated,
              !.cut = FALSE]

\* run() after connect() returned False or after the session was cleaned up:
\* count a reconnect and sleep reconnect_delay seconds, or leave the loop
AfterAttempt(h) ==
    IF StillRunning(running)
    THEN /\ reconnect_count' = reconnect_count + 1
         /\ run_pc' = "backoff"
         /\ run_hist' = [h EXCEPT !.seq = @ + 1, !.wait = reconnect_delay]
    ELSE /\ reconnect_count' = reconnect_count
         /\ run_pc' = "returned"
         /\ run_hist' = h

\* run() is called: self.running = True, the loop calls connect(), which
\* waits in websockets.connect()
RunEffect ==
    /\ run_pc = "not_started"
    /\ running' = TRUE
    /\ run_pc' = "connect"
    /\ run_hist' = BeginAttempt(run_hist)

Run ==
    /\ RunEffect
    /\ UNCHANGED <<api, cache, ext_vars, phase, store_vars, disk_vars, now, ws_vars, client_count,
                   hist_vars, authenticated, ws_open, reconnect_delay, stop_pc,
                   daemon_vars>>

\* websockets.connect() returned: self.ws is set, the initial message is read
\* or timed out, the token is sent, connect() waits for the reply
ConnectOpened ==
    /\ run_pc = "connect"
    /\ ws_open' = TRUE
    /\ run_pc' = "auth"
    /\ UNCHANGED <<api, cache, ext_vars, phase, store_vars, disk_vars, now, ws_vars, client_count,
                   hist_vars, running, authenticated, reconnect_delay, stop_pc,
                   daemon_vars, run_hist>>

\* websockets.connect() raised (refused, timeout, TLS): connect() returns False
ConnectFail ==
    /\ run_pc = "connect"
    /\ run_hist.fails < MaxFails
    /\ AfterAttempt([run_hist EXCEPT !.fails = @ + 1, !.last_fail = "connect_failed"])
    /\ UNCHANGED <<api, cache, ext_vars, phase, store_vars, disk_vars, now, ws_pc, frame, idx,
                   messages_received, last_message_time, client_count, hist_vars,
                   running, authenticated, ws_open, reconnect_delay, stop_pc,
                   daemon_vars>>

\* the reply is not 'Successfully authenticated', or none comes, or the
\* socket was closed under the wait: connect() returns False and leaves
\* self.ws as it is
AuthFail ==
    /\ run_pc = "auth"
    /\ run_hist.fails < MaxFails \/ run_hist.cut
    /\ \E why \in AuthFailures :
         /\ run_hist.cut => why = "closed_in_auth"
         /\ AfterAttempt([run_hist EXCEPT
                            !.fails = Min(@ + 1, MaxFails),
                            !.last_fail = why,
                            !.violated = @ \/ why = "violation",
                            !.reports = IF why = "violation" THEN Min(@ + 1, 2) ELSE @])
         /\ authenticated' = IF why = "violation" THEN FALSE ELSE authenticated
    /\ UNCHANGED <<api, cache, ext_vars, phase, store_vars, disk_vars, now, ws_pc, frame, idx,
                   messages_received, last_message_time, client_count, hist_vars,
                   running, ws_open, reconnect_delay, stop_pc, daemon_vars>>

\* connect() returned True: run() starts keepalive_loop and message_handler
Connect ==
    /\ run_pc = "auth"
    /\ ~run_hist.cut
    /\ ws_pc = "disconnected"
    /\ authenticated' = TRUE
    /\ reconnect_delay' = DelayAfterAuth(reconnect_delay)
    /\ run_pc' = "session"
    /\ ws_pc' = LoopTop(running, ws_open, TRUE)
    /\ run_hist' = [run_hist EXCEPT !.pre_fails = run_hist.fails, !.fails = 0,
                                    !.seq = 0, !.authed = TRUE]
    /\ tasks' = [keepalive |-> tasks.keepalive + 1, handler |-> tasks.handler + 1]
    /\ UNCHANGED <<api, cache, conns, profile_vars, frame_vars, phase, store_vars, disk_vars, now, frame, idx,
                   messages_received, last_message_time, reconnect_count,
                   client_count, hist_vars, running, ws_open, stop_pc, daemon_vars>>

\* asyncio.wait(tasks, return_when=FIRST_COMPLETED) returned: the keepalive
\* loop left after a send error, or the message handler left its loop
TaskDone(t, why) ==
    IF why = "keepalive_error"
    THEN [t EXCEPT !.keepalive = @ - 1]
    ELSE [t EXCEPT !.handler = @ - 1]

\* mutant: run() does not cancel the task that is still pending
CancelPending_Skip(t) == t

\* for task in pending: task.cancel(); await task
CancelPending(t) == NoTasks

\* one of the two tasks of the session ended: ConnectionClosed in ws.recv(),
\* an error of the keepalive send or of the handler, or the loop test after
\* stop(); run() cancels the other task, disconnects and goes on as after a
\* failed attempt
ConnectionClosed ==
    /\ run_pc = "session"
    /\ ws_pc \in {"recv", "handler_done", "handler_raised"}
    /\ \E why \in SessionEnds \cup {"stopped"} :
         /\ (why = "stopped") = (ws_pc = "handler_done" \/ ~running \/ ~ws_open)
         /\ ws_pc = "handler_raised" => why \in {"handler_error", "stopped"}
         /\ why # "stopped" => run_hist.closes < MaxReconnects
         /\ AfterAttempt([run_hist EXCEPT
                            !.closes = IF why = "stopped" THEN @ ELSE @ + 1,
                            !.last_fail = why])
         /\ tasks' = CancelPending(TaskDone(tasks, why))
    /\ ws_pc' = "disconnected"
    /\ ws_open' = FALSE
    /\ authenticated' = FALSE
    /\ UNCHANGED <<api, cache, conns, profile_vars, frame_vars, phase, store_vars, disk_vars,
                   now, frame, idx, messages_received, last_message_time, client_count,
                   hist_vars, running, reconnect_delay, stop_pc, daemon_vars>>

\* the backoff sleep is over: the delay doubles up to the cap and the loop
\* tests self.running
BackoffDone ==
    /\ run_pc = "backoff"
    /\ reconnect_delay' = NextDelay(reconnect_delay)
    /\ IF StillRunning(running)
       THEN /\ run_pc' = "connect"
            /\ run_hist' = BeginAttempt(run_hist)
       ELSE /\ run_pc' = "returned"
            /\ run_hist' = run_hist
    /\ UNCHANGED <<api, cache, ext_vars, phase, store_vars, disk_vars, now, ws_vars, client_count,
                   hist_vars, running, authenticated, ws_open, stop_pc, daemon_vars>>

\* stop(): self.running = False, then disconnect(), which waits in
\* ws.close() when there is a socket
WsStopEffect ==
    /\ stop_pc = "none"
    /\ running' = FALSE
    /\ stop_pc' = IF ws_open THEN "closing" ELSE "done"
    /\ run_hist' = [run_hist EXCEPT !.stopped = TRUE,
                                    !.cut = ws_open /\ run_pc \in {"auth", "session"}]

WsStop ==
    /\ Suspends(ws_pc)
    /\ WsStopEffect
    /\ UNCHANGED <<api, cache, ext_vars, phase, store_vars, disk_vars, now, ws_vars, client_count,
                   hist_vars, authenticated, ws_open, reconnect_delay, run_pc,
                   daemon_vars>>

\* ws.close() returned in disconnect(): self.ws = None, authenticated = False
WsStopClosed ==
    /\ stop_pc = "closing"
    /\ Suspends(ws_pc)
    /\ stop_pc' = "done"
    /\ ws_open' = FALSE
    /\ authenticated' = FALSE
    /\ UNCHANGED <<api, cache, ext_vars, phase, store_vars, disk_vars, now, ws_vars, client_count,
                   hist_vars, running, reconnect_delay, run_pc, daemon_vars, run_hist>>

\* a frame the loop skips: pong, non-JSON, or msg other than 'update'
RecvSkipped ==
    /\ ws_pc = "recv"
    /\ messages_received < MaxUpdates
    /\ messages_received' = messages_received + 1
    /\ last_message_time' = now
    /\ ws_pc' = LoopTop(running, ws_open, authenticated)
    /\ UNCHANGED <<api, cache, ext_vars, phase, store_vars, disk_vars, now, frame, idx,
                   reconnect_count, client_count, hist_vars, life_vars>>

\* ---- message_handler on the text of a frame
ePongo == [name |-> "Pongo"]

\* an element of a results array: a JSON object d, or another JSON value
Elem(d) == [obj |-> TRUE, d |-> d]

NonObject == [obj |-> FALSE, d |-> EmptyDict]

\* the frames the server sends: json: "none" for text that is not JSON
\* (text holds it), "array" for JSON that is no object, "object"; msg with
\* msg_is_str: the value under 'msg' ("" when the key is absent)
RawFrames ==
    { [json |-> "none", text |-> t, msg_is_str |-> TRUE, msg |-> "", target |-> "",
       results |-> <<>>] : t \in {"pong", "hello"} }
    \cup
    { [json |-> "array", text |-> "", msg_is_str |-> TRUE, msg |-> "", target |-> "",
       results |-> <<>>] }
    \cup
    { [json |-> "object", text |-> "", msg_is_str |-> str, msg |-> m, target |-> "members",
       results |-> rs] :
        str \in BOOLEAN, m \in {"update", "Update", "notice", ""},
        rs \in { <<>>,
                 <<Elem([operationType |-> "insert", id |-> "f1", content |-> eAlice])>>,
                 <<Elem([operationType |-> "insert", id |-> "f1", content |-> ePongo])>>,
                 <<Elem([id |-> "f2"])>>,
                 <<Elem([operationType |-> "insert", id |-> "f1", content |-> eAlice]),
                   Elem([operationType |-> "delete", id |-> "f1"])>>,
                 <<NonObject>> } }

\* the words of a frame's text that the model tells apart
Tokens(f) ==
    IF f.json = "none" THEN {f.text}
    ELSE {f.msg, f.target} \cup
         { Get(Get(f.results[j].d, "content", EmptyDict), "name", "") : j \in 1..Len(f.results) }

\* str.lower()
Lower(w) ==
    CASE w = "Update" -> "update"
      [] w = "Pongo" -> "pongo"
      [] w = "Alice" -> "alice"
      [] OTHER -> w

\* needle in w, for words in lower case
Contains(w, needle) == w = needle \/ (w = "pongo" /\ needle = "pong")

\* "pong" in message_str.lower() or "authenticated" in message_str.lower()
IsNoise(f) ==
    \E w \in Tokens(f) :
        Contains(Lower(w), "pong") \/ Contains(Lower(w), "authenticated")

\* WSUpdateResult.from_dict: the arguments of the callback
CallbackArgs(e) ==
    [operationType |-> Get(e.d, "operationType", ""), id |-> Get(e.d, "id", ""),
     content |-> Get(e.d, "content", EmptyDict)]

\* what message_handler does with a frame: "skipped", "ignored" (continue),
\* "raised" (an AttributeError of from_dict or of msg_type.lower() reaches
\* except Exception, which leaves the loop), "applied" (the for loop runs)
FrameOutcome(f) ==
    IF IsNoise(f) \/ f.json = "none" THEN "skipped"
    ELSE IF f.json # "object" THEN "raised"
    ELSE IF ~f.msg_is_str THEN "raised"
    ELSE IF Lower(f.msg) # "update" THEN "ignored"
    ELSE IF \E j \in 1..Len(f.results) : ~f.results[j].obj THEN "raised"
    ELSE "applied"

\* ws.recv() returned a frame
RecvFrame(frames) ==
    /\ ws_pc = "recv"
    /\ ws_open
    /\ NoHandlerHolds
    /\ messages_received < MaxUpdates
    /\ \E f \in frames :
         LET o == FrameOutcome(f)
             args == [j \in 1..Len(f.results) |-> CallbackArgs(f.results[j])]
         IN  /\ rx' = [valid |-> TRUE, f |-> f, outcome |-> o, calls_before |-> calls_done]
             /\ IF o = "applied" /\ args # <<>>
                THEN /\ arrived + Len(args) <= MaxUpdates
                     /\ frame' = [target |-> f.target, results |-> Tagged(args, arrived)]
                     /\ arrived' = arrived + Len(args)
                     /\ idx' = 1
                     /\ ws_pc' = "loop"
                ELSE /\ ws_pc' = IF o = "raised" THEN "handler_raised"
                                 ELSE LoopTop(running, ws_open, authenticated)
                     /\ UNCHANGED <<frame, arrived, idx>>
    /\ messages_received' = messages_received + 1
    /\ last_message_time' = now
    /\ UNCHANGED <<api, cache, conns, profile_vars, twin, wire, tasks, phase, store_vars, disk_vars,
                   now, reconnect_count, client_count, restarts, applied_log, hu_running,
                   calls_done, last, last_read, init_info, old_run, life_vars>>

\* an update frame for one of the targets: the for loop over its results starts
RecvUpdate(targets) ==
    /\ ws_pc = "recv"
    /\ ws_open
    /\ NoHandlerHolds
    /\ \E target \in targets : \E results \in FrameResults(target) :
         /\ arrived + Len(results) <= MaxUpdates
         /\ frame' = [target |-> target, results |-> Tagged(results, arrived)]
         /\ arrived' = arrived + Len(results)
    /\ idx' = 1
    /\ ws_pc' = "loop"
    /\ messages_received' = messages_received + 1
    /\ last_message_time' = now
    /\ UNCHANGED <<api, cache, ext_vars, phase, store_vars, disk_vars, now, reconnect_count,
                   client_count, restarts, applied_log, hu_running, calls_done, last,
                   last_read, init_info, old_run, life_vars>>

\* an update frame for frontHistory with one result whose content is null
RecvUnusable ==
    /\ ws_pc = "recv"
    /\ ws_open
    /\ NoHandlerHolds
    /\ arrived + 1 <= MaxUpdates
    /\ \E i \in Ids :
         frame' = [target |-> "frontHistory",
                   results |-> Tagged(<<[operationType |-> "insert", id |-> i,
                                         content |-> cNull]>>, arrived)]
    /\ arrived' = arrived + 1
    /\ idx' = 1
    /\ ws_pc' = "loop"
    /\ messages_received' = messages_received + 1
    /\ last_message_time' = now
    /\ UNCHANGED <<api, cache, ext_vars, phase, store_vars, disk_vars, now, reconnect_count,
                   client_count, restarts, applied_log, hu_running, calls_done, last,
                   last_read, init_info, old_run, life_vars>>

\* ---------------------------------------------------------- handle_update
ItemKey(target, obj_id) ==
    <<IF target = "members" THEN "member" ELSE "custom_front", obj_id>>

\* CacheManager.set of one item file
SetItem(items, key, data) ==
    [k \in DOMAIN items \cup {key} |-> IF k = key THEN data ELSE items[k]]

\* CacheManager.invalidate of one item file
InvalidateItem(items, key) == [k \in DOMAIN items \ {key} |-> items[k]]

\* the dict one of the two entity handlers works on after its first block
EntityAfter(d, op, obj_id, content) ==
    IF op = "delete" THEN Remove(d, obj_id) ELSE Upsert(d, obj_id, content)

\* the item file after the first block of an entity handler
ItemsAfter(d, target, op, obj_id, content) ==
    IF ~cache THEN disk_items
    ELSE IF op = "delete"
         THEN IF obj_id \in Keys(d)
              THEN InvalidateItem(disk_items, ItemKey(target, obj_id))
              ELSE disk_items
         ELSE SetItem(disk_items, ItemKey(target, obj_id), content)

\* message_handler calls the callback for the next result: handle_update
\* counts the call and the handler of the target changes its dict
HuBegin ==
    /\ ws_pc = "loop"
    /\ LET item == ForOrder(frame.results)[idx]
           target == frame.target
           op == item.r.operationType
           obj_id == item.r.id
           content == item.r.content
       IN  /\ update_count' = NextUpdateCount(target, update_count)
           /\ front_history' =
                IF target = "frontHistory"
                THEN EntityAfter(front_history, op, obj_id, content)
                ELSE front_history
           /\ members' =
                IF target = "members"
                THEN EntityAfter(members, op, obj_id, content)
                ELSE members
           /\ custom_fronts' =
                IF target = "customFronts"
                THEN EntityAfter(custom_fronts, op, obj_id, content)
                ELSE custom_fronts
           /\ disk_items' =
                IF target = "members"
                THEN ItemsAfter(members, target, op, obj_id, content)
                ELSE IF target = "customFronts"
                THEN ItemsAfter(custom_fronts, target, op, obj_id, content)
                ELSE disk_items
           /\ ws_pc' = IF target \in {"frontHistory", "members", "customFronts"}
                       THEN "hu_derive" ELSE "hu_stamp"
           /\ applied_log' = Append(applied_log, [seq |-> item.seq, conn |-> reconnect_count])
           /\ last' = [valid |-> TRUE, done |-> FALSE, target |-> target, op |-> op,
                       id |-> obj_id, content |-> content,
                       dup |-> /\ last.valid
                               /\ last.target = target /\ last.op = op
                               /\ last.id = obj_id /\ last.content = content,
                       prior |-> IF last.valid /\ last.target = target /\ last.id = obj_id
                                 THEN IF last.op = "delete" THEN "delete" ELSE "upsert"
                                 ELSE "none",
                       pre |-> Snapshot, at |-> now]
    /\ hu_running' = hu_running + 1
    /\ UNCHANGED <<api, cache, ext_vars, phase, current_fronters, last_update_times,
                   disk_fronters, disk_members, disk_custom_fronts, now, frame, idx,
                   messages_received, last_message_time, reconnect_count, client_count,
                   restarts, arrived, calls_done, last_read, init_info, old_run,
                   life_vars>>

\* the second block of the handler: frontHistory rebuilds current_fronters
\* and writes it to the cache, the entity handlers write their full list
HuDerive ==
    /\ ws_pc = "hu_derive"
    /\ ~(frame.target = "frontHistory" /\ RebuildRaises(front_history))
    /\ current_fronters' =
         IF frame.target = "frontHistory"
         THEN [none |-> FALSE, items |-> RebuildFronters(front_history)]
         ELSE current_fronters
    /\ disk_fronters' =
         IF frame.target = "frontHistory" /\ cache
         THEN File(RebuildFronters(front_history))
         ELSE disk_fronters
    /\ disk_members' =
         IF frame.target = "members" /\ cache
         THEN File(Values(members))
         ELSE disk_members
    /\ disk_custom_fronts' =
         IF frame.target = "customFronts" /\ cache
         THEN File(Values(custom_fronts))
         ELSE disk_custom_fronts
    /\ init_info' = [init_info EXCEPT
                       !.fh_applied = @ \/ frame.target = "frontHistory"]
    /\ ws_pc' = "hu_stamp"
    /\ UNCHANGED <<api, cache, ext_vars, phase, members, custom_fronts, front_history,
                   last_update_times, update_count, disk_items, now, frame, idx,
                   messages_received, last_message_time, reconnect_count, client_count,
                   restarts, arrived, applied_log, hu_running, calls_done, last,
                   last_read, old_run, life_vars>>

\* the rebuild raises: the exception leaves handle_update before the
\* assignment to current_fronters and before the timestamp; message_handler
\* logs it and goes on with the for loop
HuRaise ==
    /\ ws_pc = "hu_derive"
    /\ frame.target = "frontHistory"
    /\ RebuildRaises(front_history)
    /\ idx' = idx + 1
    /\ ws_pc' = IF idx + 1 > Len(frame.results)
                THEN LoopTop(running, ws_open, authenticated)
                ELSE "loop"
    /\ hu_running' = hu_running - 1
    /\ calls_done' = calls_done + 1
    /\ last' = [last EXCEPT !.done = TRUE, !.at = now]
    /\ UNCHANGED <<api, cache, ext_vars, phase, store_vars, disk_vars, now, frame,
                   messages_received, last_message_time, reconnect_count, client_count,
                   restarts, arrived, applied_log, last_read, init_info, old_run,
                   life_vars>>

\* handle_update stamps the collection and returns to the for loop
HuStamp ==
    /\ ws_pc = "hu_stamp"
    /\ last_update_times' =
         SetTime(last_update_times, CollectionKey(frame.target), now)
    /\ idx' = idx + 1
    /\ ws_pc' = IF idx + 1 > Len(frame.results)
                THEN LoopTop(running, ws_open, authenticated)
                ELSE "loop"
    /\ hu_running' = hu_running - 1
    /\ calls_done' = calls_done + 1
    /\ last' = [last EXCEPT !.done = TRUE, !.at = now]
    /\ UNCHANGED <<api, cache, ext_vars, phase, current_fronters, members, custom_fronts,
                   front_history, update_count, disk_vars, now, frame,
                   messages_received, last_message_time, reconnect_count, client_count,
                   restarts, arrived, applied_log, last_read, init_info, old_run,
                   life_vars>>

\* ------------------------------------------------------- UnixSocketServer
Commands == {"ping", "status", "fronting", "members", "custom-fronts", "switch", "reload"}

\* mutant: every command is answered ok only while the websocket is
\* authenticated
ResponseStatus_NeedsConnection(cmd) ==
    IF cmd \in {"ping", "status", "fronting", "members", "custom-fronts"} /\ authenticated
    THEN "ok"
    ELSE "error"

\* mutant: switch and reload are stubs that answer ok
ResponseStatus_StubOk(cmd) == "ok"

\* handle_command: the status of the response to cmd
ResponseStatus(cmd) ==
    IF cmd \in {"ping", "status", "fronting", "members", "custom-fronts"}
    THEN "ok"
    ELSE "error"

\* handle_command: the data of the response is {'pong': True}
ResponsePong(cmd) == cmd = "ping"

\* a client can connect when the listening socket is bound and its file is
\* in place
Accepting == listening /\ socket_file

\* what a client that connects now and sends cmd gets: the status of the
\* response, or no connection at all
ClientOutcome(cmd) == IF Accepting THEN ResponseStatus(cmd) ELSE "refused"

\* ---- requests and responses (daemon_protocol) and handle_client
\* the request_id a client supplies
RequestIds == {"r1"}

\* str(uuid.uuid4()), the default of Request.from_dict
GeneratedId == "uuid4"

\* the request_id handle_client gives the response to a request it could
\* not parse
UnknownId == "unknown"

\* what reader.read(8192) returns: nothing (the client closed or sent
\* nothing), bytes that are not UTF-8, text that is not JSON, JSON that is
\* not an object, or an object with or without a command and a request_id
Payloads ==
    {[kind |-> k, command |-> NoCommand, rid |-> NoRid] :
        k \in {"empty", "bad_utf8", "bad_json", "not_object"}}
    \cup {[kind |-> "object", command |-> c, rid |-> r] :
            c \in Commands \cup {NoCommand, "bogus"}, r \in RequestIds \cup {NoRid}}

\* the requests a client writes with one writer.write and drain
SentRequests ==
    {[kind |-> "object", command |-> c, rid |-> r] : c \in Commands, r \in RequestIds}

\* what the one reader.read(8192) of handle_client returns of a request: all
\* of it, or its first bytes, "prefix", when it is longer than 8192 bytes or
\* when only a part of it has arrived
ReadOnce(sent, long, split) ==
    IF long \/ split THEN [sent EXCEPT !.kind = "prefix"] ELSE sent

SplitReads == { ReadOnce(s, long, split) : s \in SentRequests, long \in BOOLEAN, split \in BOOLEAN }

\* Response.success(request_id, data)
Success(rid, kind) ==
    [status |-> "ok", request_id |-> rid, data |-> [null |-> FALSE, kind |-> kind],
     error |-> NullError]

\* mutant: an error response keeps a data payload
Error_WithData(rid, words) ==
    [status |-> "error", request_id |-> rid, data |-> [null |-> FALSE, kind |-> "partial"],
     error |-> [null |-> FALSE, words |-> words]]

\* Response.error(request_id, error_message); the message as its words
Error(rid, words) ==
    [status |-> "error", request_id |-> rid, data |-> NullData,
     error |-> [null |-> FALSE, words |-> words]]

\* request_data.decode('utf-8') succeeds
Decodes(p) == p.kind # "bad_utf8"

\* str(e) of what json.loads or Request.from_dict raises
ParseError(p) ==
    IF p.kind = "bad_json" THEN <<"Expecting", "value">>
    ELSE IF p.kind = "prefix" THEN <<"Unterminated", "string">>
    ELSE IF p.kind = "not_object" THEN <<"'list'", "object", "has", "no", "attribute", "'get'">>
    ELSE IF p.command = NoCommand THEN <<"'command'">>
    ELSE <<"'" \o p.command \o "'", "is", "not", "a", "valid", "CommandType">>

\* json.loads and Request.from_dict do not raise
Parses(p) == p.kind = "object" /\ p.command \in Commands

\* Request.from_dict: the request_id of the request, or a fresh uuid
RequestOf(p) ==
    [command |-> p.command,
     request_id |-> IF p.rid = NoRid THEN GeneratedId ELSE p.rid]

\* the data handle_command puts into an ok response
DataKind(cmd) ==
    IF cmd = "ping" THEN "pong"
    ELSE IF cmd = "status" THEN "status"
    ELSE IF cmd = "fronting" THEN "fronters"
    ELSE IF cmd = "members" THEN "members"
    ELSE "custom_fronts"

\* the message of the error handle_command returns for switch and reload
NotImplemented(cmd) ==
    <<IF cmd = "switch" THEN "Switch" ELSE "Reload", "command", "not", "yet", "implemented">>

\* handle_command
HandleCommand(req) ==
    IF ResponseStatus(req.command) = "ok"
    THEN Success(req.request_id, DataKind(req.command))
    ELSE Error(req.request_id, NotImplemented(req.command))


\* handle_client: Response.error("unknown", f"Invalid request: {e}")
ParseErrorId(p) == UnknownId

\* handle_client from the read to the write: the response written, or
\* NoResponse (an empty read returns; an exception outside the parse is
\* logged)
HandleClientOutcome(p) ==
    IF p.kind = "empty" THEN NoResponse
    ELSE IF ~Decodes(p) THEN NoResponse
    ELSE IF ~Parses(p) THEN Error(ParseErrorId(p), <<"Invalid", "request:">> \o ParseError(p))
    ELSE HandleCommand(RequestOf(p))

\* the client of a connection: it sends a request, or it sends nothing
ClientKinds == {"sends", "silent"}

\* a handler can run: the websocket task is suspended and no other handler
\* holds the event loop
CanRun(c) == Suspends(ws_pc) /\ \A d \in ConnIds \ {c} : ~HoldsLoop(conns[d].pc)

\* a client connected: asyncio starts a handle_client task, which counts the
\* client and waits in reader.read for at most 5 seconds
Accept(c) ==
    /\ Accepting
    /\ CanRun(c)
    /\ conns[c].pc = "none"
    /\ IF c = 1 THEN TRUE ELSE conns[c - 1].pc # "none"
    /\ \E k \in ClientKinds :
         conns' = [conns EXCEPT ![c] = [NoConn EXCEPT !.pc = "reading", !.client = k]]
    /\ client_count' = client_count + 1
    /\ UNCHANGED <<api, cache, profile_vars, frame_vars, tasks, phase, store_vars, disk_vars,
                   now, ws_vars,
                   hist_vars, life_vars>>

\* reader.read returned before the deadline: the handler decodes, parses,
\* calls handle_command, writes the response and waits in writer.drain; or
\* it goes to the finally block without a response
ReadRequest(c, payloads) ==
    /\ conns[c].pc = "reading"
    /\ conns[c].client # "silent"
    /\ CanRun(c)
    /\ \E p \in payloads, stuck \in BOOLEAN :
         LET r == HandleClientOutcome(p)
         IN  /\ stuck => r.data.kind \in {"fronters", "members", "custom_fronts"}
             /\ conns' = [conns EXCEPT ![c] =
                   [@ EXCEPT !.payload = p,
                             !.resp = r,
                             !.written = IF r = NoResponse THEN 0 ELSE 1,
                             !.stuck = stuck,
                             !.pc = IF r = NoResponse THEN "closing" ELSE "draining"]]
    /\ UNCHANGED <<api, cache, profile_vars, frame_vars, tasks, phase, store_vars, disk_vars,
                   now, ws_vars,
                   client_count, hist_vars, life_vars>>

\* asyncio.wait_for(reader.read(8192), timeout=5.0) timed out
ReadTimeout(c) ==
    /\ conns[c].pc = "reading"
    /\ conns[c].client = "silent"
    /\ CanRun(c)
    /\ conns' = [conns EXCEPT ![c].pc = "closing"]
    /\ UNCHANGED <<api, cache, profile_vars, frame_vars, tasks, phase, store_vars, disk_vars,
                   now, ws_vars,
                   client_count, hist_vars, life_vars>>

\* writer.drain() returned: the response is in the buffers or was read
Drained(c) ==
    /\ conns[c].pc = "draining"
    /\ ~conns[c].stuck
    /\ CanRun(c)
    /\ conns' = [conns EXCEPT ![c].pc = "closing"]
    /\ UNCHANGED <<api, cache, profile_vars, frame_vars, tasks, phase, store_vars, disk_vars,
                   now, ws_vars,
                   client_count, hist_vars, life_vars>>

\* finally: writer.close() and writer.wait_closed() returned; the task and
\* what it read and wrote are gone
Closed(c) ==
    /\ conns[c].pc = "closing"
    /\ CanRun(c)
    /\ conns' = [conns EXCEPT ![c] = [NoConn EXCEPT !.pc = "closed"]]
    /\ UNCHANGED <<api, cache, profile_vars, frame_vars, tasks, phase, store_vars, disk_vars,
                   now, ws_vars,
                   client_count, hist_vars, life_vars>>

\* history: the ledger already holds the change of the event in progress
\* while current_fronters is still the list from before it
Torn ==
    /\ ws_pc = "hu_derive"
    /\ frame.target = "frontHistory"
    /\ front_history # last.pre.front_history
    /\ current_fronters = last.pre.current_fronters

\* the number of entries in the data of the response to cmd
ResponseCount(cmd) ==
    IF cmd = "fronting"
    THEN Len(GetFronters(current_fronters, last_update_times).fronters)
    ELSE IF cmd = "members"
    THEN Len(GetEntities(members, last_update_times, "members").items)
    ELSE IF cmd = "custom-fronts"
    THEN Len(GetEntities(custom_fronts, last_update_times, "custom_fronts").items)
    ELSE IF cmd = "status"
    THEN GetStatus(current_fronters, members, custom_fronts, last_update_times,
                   update_count).fronters_count
    ELSE 0

\* handle_client: one request of one connection, answered by handle_command,
\* which runs in the event loop while the websocket task is suspended
HandleClient ==
    /\ Accepting
    /\ Suspends(ws_pc)
    /\ client_count < MaxReads
    /\ client_count' = client_count + 1
    /\ \E cmd \in Commands :
         last_read' = [valid |-> TRUE, cmd |-> cmd, status |-> ResponseStatus(cmd),
                       pong |-> ResponsePong(cmd), run |-> run_pc,
                       at |-> ws_pc, after |-> calls_done,
                       count |-> ResponseCount(cmd),
                       live |-> Len(LiveFronts(front_history)),
                       torn |-> Torn]
    /\ UNCHANGED <<api, cache, ext_vars, phase, store_vars, disk_vars, now, ws_vars,
                   restarts, arrived, applied_log, hu_running, calls_done, last,
                   init_info, old_run, life_vars>>

\* ------------------------------------------ SimplyPluralDaemon and main()
\* start() waits in an await that yields to the event loop: in the REST
\* requests of initialize() (there are none without a REST client), in
\* asyncio.start_unix_server(), or inside ws_manager.run()
StartSuspended ==
    \/ start_pc = "seeding" /\ phase = "new" /\ api
    \/ start_pc \in {"binding", "run", "returned", "raised"}

\* initialize() returned: start() creates the WebSocketManager and the
\* UnixSocketServer, and socket_server.start() binds the socket and waits in
\* asyncio.start_unix_server()
ServerBind ==
    /\ start_pc = "seeding"
    /\ phase = "running"
    /\ start_pc' = "binding"
    /\ socket_file' = TRUE
    /\ listening' = TRUE
    /\ UNCHANGED <<api, cache, ext_vars, phase, store_vars, disk_vars, now, ws_vars, client_count,
                   hist_vars, client_vars, main_pc, shutdown_event, srv_server,
                   srv_running, run_hist>>

\* asyncio.start_unix_server() returned: self.server is set, os.chmod of the
\* socket file (it raises when the file is gone), running = True, and
\* start() calls ws_manager.run()
ServerStarted ==
    /\ start_pc = "binding"
    /\ srv_server' = TRUE
    /\ IF socket_file
       THEN /\ srv_running' = TRUE
            /\ start_pc' = "run"
            /\ RunEffect
       ELSE /\ srv_running' = srv_running
            /\ start_pc' = "raised"
            /\ UNCHANGED <<running, run_pc, run_hist>>
    /\ UNCHANGED <<api, cache, ext_vars, phase, store_vars, disk_vars, now, ws_vars, client_count,
                   hist_vars, authenticated, ws_open, reconnect_delay, stop_pc,
                   main_pc, shutdown_event, socket_file, listening>>

\* ws_manager.run() returned: start() returns
StartReturn ==
    /\ start_pc = "run"
    /\ run_pc = "returned"
    /\ start_pc' = "returned"
    /\ UNCHANGED <<api, cache, ext_vars, phase, store_vars, disk_vars, now, ws_vars, client_count,
                   hist_vars, client_vars, main_pc, shutdown_event, socket_file,
                   listening, srv_server, srv_running, run_hist>>

\* SIGINT / SIGTERM: signal_handler sets shutdown_event
Signal ==
    /\ main_pc = "wait"
    /\ ~shutdown_event
    /\ shutdown_event' = TRUE
    /\ UNCHANGED <<api, cache, ext_vars, phase, store_vars, disk_vars, now, ws_vars, client_count,
                   hist_vars, client_vars, start_pc, main_pc, socket_file, listening,
                   srv_server, srv_running, run_hist>>

\* UnixSocketServer.stop(): running = False, the server is closed when
\* self.server is set, the socket file is removed
ServerStopEffect ==
    /\ srv_running' = FALSE
    /\ listening' = IF srv_server THEN FALSE ELSE listening
    /\ socket_file' = FALSE

\* main() wakes from shutdown_event.wait() and calls daemon.stop(): it stops
\* the components that exist, the WebSocketManager first; start() creates
\* both after initialize() returned
MainStop ==
    /\ main_pc = "wait"
    /\ shutdown_event
    /\ StartSuspended
    /\ Suspends(ws_pc)
    /\ IF start_pc = "seeding"
       THEN /\ main_pc' = "await_task"
            /\ UNCHANGED <<running, stop_pc, run_hist, srv_running, listening,
                           socket_file>>
       ELSE /\ WsStopEffect
            /\ IF ws_open
               THEN /\ main_pc' = "stop_ws"
                    /\ UNCHANGED <<srv_running, listening, socket_file>>
               ELSE /\ main_pc' = "await_task"
                    /\ ServerStopEffect
    /\ UNCHANGED <<api, cache, ext_vars, phase, store_vars, disk_vars, now, ws_vars, client_count,
                   hist_vars, authenticated, ws_open, reconnect_delay, run_pc,
                   start_pc, shutdown_event, srv_server>>

\* mutant: ws_manager.stop() is started and not awaited
WsStopReturned_NoWait(pc) == TRUE

\* daemon.stop() awaits ws_manager.stop() before it goes on
WsStopReturned(pc) == pc = "done"

\* ws_manager.stop() returned: daemon.stop() stops the socket server and
\* main() awaits the task of start()
MainStopServer ==
    /\ main_pc = "stop_ws"
    /\ WsStopReturned(stop_pc)
    /\ Suspends(ws_pc)
    /\ ServerStopEffect
    /\ main_pc' = "await_task"
    /\ UNCHANGED <<api, cache, ext_vars, phase, store_vars, disk_vars, now, ws_vars, client_count,
                   hist_vars, client_vars, start_pc, shutdown_event, srv_server,
                   run_hist>>

\* the task of start() is done: main() returns (or raises what start()
\* raised) and the process exits
MainAwait ==
    /\ main_pc = "await_task"
    /\ start_pc \in {"returned", "raised"}
    /\ main_pc' = "exited"
    /\ listening' = FALSE
    /\ UNCHANGED <<api, cache, ext_vars, phase, store_vars, disk_vars, now, ws_vars, client_count,
                   hist_vars, client_vars, start_pc, shutdown_event, socket_file,
                   srv_server, srv_running, run_hist>>

\* ------------------------------------------------------------ environment
\* time passes
Tick ==
    /\ now < MaxTime
    /\ now' = now + 1
    /\ UNCHANGED <<api, cache, ext_vars, phase, store_vars, disk_vars, ws_vars, client_count,
                   hist_vars, life_vars>>

\* the daemon process ends and a new one is started on the same cache
\* directory: the memory of the old process is gone, the cache files stay
Restart ==
    /\ phase = "running"
    /\ Suspends(ws_pc)
    /\ restarts < MaxRestarts
    /\ restarts' = restarts + 1
    /\ old_run' = [exists |-> TRUE,
                   fronters |-> GetFronters(current_fronters, last_update_times).fronters,
                   wrote_cache |-> cache /\ init_info.fh_applied]
    /\ phase' = "new"
    /\ current_fronters' = [none |-> TRUE, items |-> <<>>]
    /\ members' = <<>>
    /\ custom_fronts' = <<>>
    /\ front_history' = <<>>
    /\ last_update_times' =
         [k \in {"fronters", "members", "custom_fronts", "front_history"} |-> 0]
    /\ update_count' = 0
    /\ ws_pc' = "disconnected"
    /\ frame' = [target |-> "", results |-> <<>>]
    /\ idx' = 0
    /\ messages_received' = 0
    /\ last_message_time' = 0
    /\ reconnect_count' = 0
    /\ client_count' = 0
    /\ applied_log' = <<>>
    /\ hu_running' = 0
    /\ calls_done' = 0
    /\ last' = NoCall
    /\ last_read' = NoRead
    /\ init_info' = NoInit
    /\ running' = FALSE
    /\ authenticated' = FALSE
    /\ ws_open' = FALSE
    /\ reconnect_delay' = WS_RECONNECT_INITIAL_DELAY
    /\ run_pc' = "not_started"
    /\ stop_pc' = "none"
    /\ start_pc' = "seeding"
    /\ main_pc' = "wait"
    /\ shutdown_event' = FALSE
    /\ socket_file' = FALSE
    /\ listening' = FALSE
    /\ srv_server' = FALSE
    /\ srv_running' = FALSE
    /\ run_hist' = NoRunHist
    /\ conns' = NoConns
    /\ tasks' = NoTasks
    /\ UNCHANGED <<api, cache, profile_vars, frame_vars, disk_vars, now, arrived>>

Next ==
    \/ Initialize
    \/ ServerBind
    \/ ServerStarted
    \/ StartReturn
    \/ Signal
    \/ MainStop
    \/ MainStopServer
    \/ MainAwait
    \/ Run
    \/ ConnectOpened
    \/ ConnectFail
    \/ AuthFail
    \/ BackoffDone
    \/ WsStop
    \/ WsStopClosed
    \/ Connect
    \/ ConnectionClosed
    \/ RecvSkipped
    \/ RecvUpdate(Targets)
    \/ HuBegin
    \/ HuDerive
    \/ HuStamp
    \/ HandleClient
    \/ Tick
    \/ Restart

Spec == Init /\ [][Next]_vars

\* the store under the event stream of one daemon process
StoreNext ==
    \/ Initialize
    \/ ServerBind
    \/ ServerStarted
    \/ ConnectOpened
    \/ Connect
    \/ RecvUpdate(Targets)
    \/ HuBegin
    \/ HuDerive
    \/ HuStamp

SpecStore == Init /\ [][StoreNext]_vars

\* the ledger over restarts of the daemon on one cache directory
RestartNext ==
    \/ Initialize
    \/ ServerBind
    \/ ServerStarted
    \/ ConnectOpened
    \/ Connect
    \/ RecvUpdate({"frontHistory"})
    \/ HuBegin
    \/ HuDerive
    \/ HuStamp
    \/ Restart

SpecRestart == Init /\ [][RestartNext]_vars

\* a daemon that got no REST client (main(): creating it failed, or the
\* store was constructed without one): it seeds from the cache or not at all
NoRestInit == Init /\ ~api

\* the socket server next to the event stream of one daemon process
ServerNext ==
    \/ Initialize
    \/ ServerBind
    \/ ServerStarted
    \/ ConnectOpened
    \/ Connect
    \/ RecvUpdate({"frontHistory"})
    \/ HuBegin
    \/ HuDerive
    \/ HuStamp
    \/ HandleClient

SpecServer == NoRestInit /\ [][ServerNext]_vars

\* the websocket task of one daemon process over its reconnects
StreamNext ==
    \/ Initialize
    \/ ServerBind
    \/ ServerStarted
    \/ ConnectOpened
    \/ Connect
    \/ ConnectionClosed
    \/ BackoffDone
    \/ RecvSkipped
    \/ RecvUpdate({"frontHistory"})
    \/ HuBegin
    \/ HuDerive
    \/ HuStamp

SpecStream == NoRestInit /\ [][StreamNext]_vars

\* the store under frontHistory events while time passes
ClockNext ==
    \/ Initialize
    \/ ServerBind
    \/ ServerStarted
    \/ ConnectOpened
    \/ Connect
    \/ RecvUpdate({"frontHistory"})
    \/ HuBegin
    \/ HuDerive
    \/ HuStamp
    \/ Tick

SpecClock == Init /\ [][ClockNext]_vars

\* a WebSocketManager of its own, with a caller of run() and stop()
ClientInit == Init /\ ~api /\ ~cache

ClientNext ==
    \/ Run
    \/ ConnectOpened
    \/ ConnectFail
    \/ AuthFail
    \/ Connect
    \/ ConnectionClosed
    \/ BackoffDone
    \/ WsStop
    \/ WsStopClosed

SpecClient == ClientInit /\ [][ClientNext]_vars

\* what the event loop and the timeouts of the client guarantee: a sleep
\* ends, websockets.connect() returns or raises, the wait for the reply
\* ends (timeout=10.0), ws.close() returns (close_timeout=10), and a session
\* whose socket stop() closed ends
ClientFairness ==
    /\ WF_vars(BackoffDone)
    /\ WF_vars(ConnectOpened \/ ConnectFail)
    /\ WF_vars(Connect \/ AuthFail)
    /\ WF_vars(WsStopClosed)
    /\ WF_vars(~running /\ ConnectionClosed)

SpecClientLive == ClientInit /\ [][ClientNext]_vars /\ ClientFairness

\* the daemon process: start(), the signal and the shutdown of main(), the
\* run loop against a server that fails, and the clients of the socket
DaemonNext ==
    \/ Initialize
    \/ ServerBind
    \/ ServerStarted
    \/ StartReturn
    \/ Signal
    \/ MainStop
    \/ MainStopServer
    \/ MainAwait
    \/ ConnectOpened
    \/ run_hist.fails < MaxDaemonFails /\ ConnectFail
    \/ (run_hist.fails < MaxDaemonFails \/ run_hist.cut) /\ AuthFail
    \/ Connect
    \/ ConnectionClosed
    \/ BackoffDone
    \/ WsStopClosed
    \/ HandleClient

\* the daemon process under frontHistory events, with its shutdown
ShutdownNext ==
    \/ Initialize
    \/ ServerBind
    \/ ServerStarted
    \/ StartReturn
    \/ Signal
    \/ MainStop
    \/ MainStopServer
    \/ MainAwait
    \/ ConnectOpened
    \/ Connect
    \/ ConnectionClosed
    \/ BackoffDone
    \/ WsStopClosed
    \/ RecvUpdate({"frontHistory"})
    \/ HuBegin
    \/ HuDerive
    \/ HuStamp

\* the socket server next to a run loop whose connections fail
PingNext ==
    \/ Initialize
    \/ ServerBind
    \/ ServerStarted
    \/ ConnectOpened
    \/ run_hist.fails < MaxDaemonFails /\ ConnectFail
    \/ run_hist.fails < MaxDaemonFails /\ AuthFail
    \/ Connect
    \/ ConnectionClosed
    \/ BackoffDone
    \/ HandleClient

\* a SimplyPluralDaemon constructed without a cache manager, with or
\* without a REST client
DaemonInit == Init /\ ~cache

SpecDaemon == DaemonInit /\ [][DaemonNext]_vars

SpecShutdown == ClientInit /\ [][ShutdownNext]_vars

SpecPing == NoRestInit /\ [][PingNext]_vars

\* what the event loop guarantees of the daemon: the REST requests of
\* initialize() return or raise, start_unix_server() returns, a task that
\* can go on does, and main() wakes once shutdown_event is set
DaemonFairness ==
    /\ WF_vars(Initialize)
    /\ WF_vars(ServerBind)
    /\ WF_vars(ServerStarted)
    /\ WF_vars(StartReturn)
    /\ WF_vars(MainStop)
    /\ WF_vars(MainStopServer)
    /\ WF_vars(MainAwait)
    /\ ClientFairness

SpecDaemonLive == DaemonInit /\ [][DaemonNext]_vars /\ DaemonFairness

\* the socket server with its connections, next to the websocket session
ConnNext ==
    \/ Initialize
    \/ ServerBind
    \/ ServerStarted
    \/ ConnectOpened
    \/ Connect
    \/ \E c \in ConnIds : Accept(c)
    \/ \E c \in ConnIds : ReadRequest(c, Payloads)
    \/ \E c \in ConnIds : ReadTimeout(c)
    \/ \E c \in ConnIds : Drained(c)
    \/ \E c \in ConnIds : Closed(c)

SpecConn == ClientInit /\ [][ConnNext]_vars

\* the connections of clients whose requests arrive whole or in parts
SplitNext ==
    \/ Initialize
    \/ ServerBind
    \/ ServerStarted
    \/ ConnectOpened
    \/ Connect
    \/ \E c \in ConnIds : Accept(c)
    \/ \E c \in ConnIds : ReadRequest(c, SplitReads)
    \/ \E c \in ConnIds : ReadTimeout(c)
    \/ \E c \in ConnIds : Drained(c)
    \/ \E c \in ConnIds : Closed(c)

SpecSplit == ClientInit /\ [][SplitNext]_vars

\* what the event loop and the read deadline guarantee of a connection: the
\* request arrives or the 5 seconds pass, a drain that can return does, and
\* the close completes
ConnFairness ==
    /\ \A c \in ConnIds : WF_vars(ReadRequest(c, Payloads) \/ ReadTimeout(c))
    /\ \A c \in ConnIds : WF_vars(Drained(c))
    /\ \A c \in ConnIds : WF_vars(Closed(c))

\* a daemon with a REST client and a cache manager whose writes can raise
WriteRaisesNext ==
    \/ Initialize
    \/ InitializeWriteRaises
    \/ ServerBind
    \/ ServerStarted
    \/ ConnectOpened
    \/ Connect

WriteRaisesInit == Init /\ api /\ cache

SpecWriteRaises == WriteRaisesInit /\ [][WriteRaisesNext]_vars

\* a daemon whose REST requests can raise while it seeds
SeedFailsNext ==
    \/ CliCached
    \/ Initialize
    \/ InitializeRestRaises
    \/ ServerBind
    \/ ServerStarted
    \/ ConnectOpened
    \/ Connect

SeedFailsInit == Init /\ api

SpecSeedFails == SeedFailsInit /\ [][SeedFailsNext]_vars

\* ------------------------------------- Request and Response on the wire
\* Python values, by type
PyStr(x) == [t |-> "str", s |-> x]

PyInt(x) == [t |-> "int", n |-> x]

PyBool(x) == [t |-> "bool", b |-> x]

PyNone == [t |-> "none"]

PyList(x) == [t |-> "list", items |-> x]

\* a dict: its [k, v] pairs in insertion order, the keys strings
PyDict(x) == [t |-> "dict", pairs |-> x]

\* d.get(key, default)
PairsGet(d, key, default) ==
    IF \E j \in 1..Len(d.pairs) : d.pairs[j].k = key
    THEN d.pairs[CHOOSE j \in 1..Len(d.pairs) : d.pairs[j].k = key].v
    ELSE default

RECURSIVE JsonDumps(_)
\* json.dumps: the JSON value of a Python value
JsonDumps(x) ==
    CASE x.t = "str" -> [j |-> "string", s |-> x.s]
      [] x.t = "int" -> [j |-> "number", n |-> x.n]
      [] x.t = "bool" -> [j |-> IF x.b THEN "true" ELSE "false"]
      [] x.t = "none" -> [j |-> "null"]
      [] x.t = "list" ->
           [j |-> "array", items |-> [i \in 1..Len(x.items) |-> JsonDumps(x.items[i])]]
      [] x.t = "dict" ->
           [j |-> "object",
            pairs |-> [i \in 1..Len(x.pairs) |->
                          [k |-> x.pairs[i].k, v |-> JsonDumps(x.pairs[i].v)]]]

RECURSIVE JsonLoads(_)
\* json.loads: the Python value of a JSON value
JsonLoads(y) ==
    CASE y.j = "string" -> PyStr(y.s)
      [] y.j = "number" -> PyInt(y.n)
      [] y.j = "true" -> PyBool(TRUE)
      [] y.j = "false" -> PyBool(FALSE)
      [] y.j = "null" -> PyNone
      [] y.j = "array" -> PyList([i \in 1..Len(y.items) |-> JsonLoads(y.items[i])])
      [] y.j = "object" ->
           PyDict([i \in 1..Len(y.pairs) |->
                      [k |-> y.pairs[i].k, v |-> JsonLoads(y.pairs[i].v)]])

PROTOCOL_VERSION == 1

\* a member of an enum class
Member(cls, value) == [enum |-> cls, value |-> value]

\* CommandType(value): the member with that value, ValueError without one
CommandType(x) ==
    IF x.t = "str" /\ x.s \in Commands THEN Member("CommandType", x.s)
    ELSE Member("ValueError", "")

\* ResponseStatus(value)
ResponseStatusOf(x) ==
    IF x.t = "str" /\ x.s \in {"ok", "error"} THEN Member("ResponseStatus", x.s)
    ELSE Member("ValueError", "")

\* Request.to_dict without the request id
RequestToDict_NoId(r) ==
    PyDict(<<[k |-> "version", v |-> r.version], [k |-> "command", v |-> PyStr(r.command.value)],
             [k |-> "args", v |-> r.args]>>)

RequestToDict(r) ==
    PyDict(<<[k |-> "version", v |-> r.version], [k |-> "command", v |-> PyStr(r.command.value)],
             [k |-> "args", v |-> r.args], [k |-> "request_id", v |-> r.request_id]>>)

\* Request.from_dict: str(uuid.uuid4()) is an id no request has yet
RequestFromDict(d) ==
    [version |-> PairsGet(d, "version", PyInt(PROTOCOL_VERSION)),
     command |-> CommandType(PairsGet(d, "command", PyNone)),
     args |-> PairsGet(d, "args", PyDict(<<>>)),
     request_id |-> PairsGet(d, "request_id", PyStr("uuid-new"))]

ResponseToDict(r) ==
    PyDict(<<[k |-> "version", v |-> r.version], [k |-> "status", v |-> PyStr(r.status.value)],
             [k |-> "data", v |-> r.data], [k |-> "error", v |-> r.error],
             [k |-> "request_id", v |-> r.request_id]>>)

ResponseFromDict(d) ==
    [version |-> PairsGet(d, "version", PyInt(PROTOCOL_VERSION)),
     status |-> ResponseStatusOf(PairsGet(d, "status", PyNone)),
     data |-> PairsGet(d, "data", PyNone),
     error |-> PairsGet(d, "error", PyNone),
     request_id |-> PairsGet(d, "request_id", PyStr(""))]

\* the args the client sends: none, or the names of the entities to switch to
ArgsSent ==
    { PyDict(<<>>),
      PyDict(<<[k |-> "entities", v |-> PyList(<<PyStr("Alice")>>)]>>),
      PyDict(<<[k |-> "entities", v |-> PyList(<<PyStr("Alice"), PyStr("Bob")>>)]>>),
      PyDict(<<[k |-> "entities", v |-> PyList(<<>>)], [k |-> "n", v |-> PyInt(5)]>>) }

Requests ==
    [command : {Member("CommandType", c) : c \in Commands},
     version : {PyInt(1), PyInt(2)},
     args : ArgsSent,
     request_id : {PyStr("r1"), PyStr("r2"), PyStr("")}]

Responses ==
    [status : {Member("ResponseStatus", "ok"), Member("ResponseStatus", "error")},
     request_id : {PyStr("r1"), PyStr("")},
     version : {PyInt(1)},
     data : { PyNone, PyDict(<<>>),
              PyDict(<<[k |-> "count", v |-> PyInt(5)]>>),
              PyDict(<<[k |-> "pong", v |-> PyBool(TRUE)]>>),
              PyDict(<<[k |-> "fronters",
                        v |-> PyList(<<PyDict(<<[k |-> "name", v |-> PyStr("Alice")]>>)>>)]>>) },
     error : {PyNone, PyStr("something broke")}]

\* r.to_json()
ToJson ==
    /\ wire.pc = "none"
    /\ \/ \E r \in Requests :
            wire' = [wire EXCEPT !.pc = "sent", !.kind = "request", !.obj = r,
                                 !.text = JsonDumps(RequestToDict(r))]
       \/ \E r \in Responses :
            wire' = [wire EXCEPT !.pc = "sent", !.kind = "response", !.obj = r,
                                 !.text = JsonDumps(ResponseToDict(r))]
    /\ UNCHANGED <<own_vars_but_wire, profile_vars, rx, twin>>

\* from_dict(json.loads(text))
FromJson ==
    /\ wire.pc = "sent"
    /\ wire' = [wire EXCEPT !.pc = "got",
                            !.got = IF wire.kind = "request"
                                    THEN RequestFromDict(JsonLoads(wire.text))
                                    ELSE ResponseFromDict(JsonLoads(wire.text))]
    /\ UNCHANGED <<own_vars_but_wire, profile_vars, rx, twin>>

WireNext ==
    \/ ToJson
    \/ FromJson

SpecWire == Init /\ [][WireNext]_vars

\* the store under frontHistory events, some with null content
UnusableNext ==
    \/ Initialize
    \/ ServerBind
    \/ ServerStarted
    \/ ConnectOpened
    \/ Connect
    \/ RecvUpdate({"frontHistory"})
    \/ RecvUnusable
    \/ HuBegin
    \/ HuDerive
    \/ HuRaise
    \/ HuStamp

SpecUnusable == ClientInit /\ [][UnusableNext]_vars

\* ------------------------------------------ two ledgers, event by event
\* a live entry that starts when cAlice starts
cTie == [member |-> "m2", live |-> TRUE, startTime |-> 1]

\* the first block of _handle_front_history_update on one of the two
\* ledgers: a delete, or an insert or update of a live entry
TwinEvent(side) ==
    /\ (IF side = "a" THEN twin.na ELSE twin.nb) < MaxUpdates
    /\ \E op \in Ops : \E i \in Ids : \E c \in {cAlice, cTie, cBob} :
         twin' = IF side = "a"
                 THEN [twin EXCEPT !.a = EntityAfter(@, op, i, c), !.na = @ + 1]
                 ELSE [twin EXCEPT !.b = EntityAfter(@, op, i, c), !.nb = @ + 1]
    /\ UNCHANGED <<own_vars_but_wire, profile_vars, rx, wire>>

TwinNext ==
    \/ TwinEvent("a")
    \/ TwinEvent("b")

SpecTwin == Init /\ [][TwinNext]_vars

\* the message handler under frames of every kind
FramesNext ==
    \/ Initialize
    \/ ServerBind
    \/ ServerStarted
    \/ ConnectOpened
    \/ Connect
    \/ ConnectionClosed
    \/ BackoffDone
    \/ RecvFrame(RawFrames)
    \/ HuBegin
    \/ HuDerive
    \/ HuStamp

SpecFrames == ClientInit /\ [][FramesNext]_vars

\* ------------------------------------------- the daemons of one profile
\* the daemon processes alive: seeding the store, or with the server bound
Running == {p \in ProcIds : procs[p] \in {"seeding", "serving"}}

\* DaemonClient.is_running(): a file exists at the socket path
IsRunning == sock_owner # 0

\* DaemonClient.ping(): the listener the file names belongs to a process
\* that serves
PingAnswered == IsRunning /\ procs[sock_owner] = "serving"

\* subprocess.Popen([sys.executable, '-m', 'simplyplural.daemon', ...]):
\* the new process p begins with initialize()
Spawn(p) ==
    /\ procs[p] = "none"
    /\ \A q \in 1..(p - 1) : procs[q] # "none"
    /\ procs' = [procs EXCEPT ![p] = "seeding"]

\* the `sp` command line is invoked
CliBegin(cmds) ==
    /\ cli.pc = "idle"
    /\ \E cmd \in cmds :
         cli' = [NoCli EXCEPT !.cmd = cmd, !.pc = IF cmd = "restart" THEN "stop" ELSE cmd]
    /\ UNCHANGED <<own_vars, procs, sock_owner>>

\* _maybe_auto_start_daemon with start_daemon set: nothing when the socket
\* file exists, else the daemon is spawned
CliAutoStart ==
    /\ cli.pc = "auto"
    /\ IF IsRunning
       THEN /\ cli' = [cli EXCEPT !.pc = "done"]
            /\ UNCHANGED procs
       ELSE \E p \in ProcIds :
              /\ Spawn(p)
              /\ cli' = [cli EXCEPT !.pc = "done", !.spawned = p]
    /\ UNCHANGED <<own_vars, sock_owner>>

\* _daemon_start: "already running" when the socket file exists and the
\* ping is answered; else a stale file is removed and the daemon is spawned
CliStart ==
    /\ cli.pc = "start"
    /\ IF PingAnswered
       THEN /\ cli' = [cli EXCEPT !.pc = "done", !.reported = "already running"]
            /\ UNCHANGED <<procs, sock_owner>>
       ELSE \E p \in ProcIds :
              /\ Spawn(p)
              /\ sock_owner' = 0
              /\ cli' = [cli EXCEPT !.pc = "done", !.spawned = p, !.reported = "started"]
    /\ UNCHANGED own_vars

\* _daemon_stop: "Daemon not running" when there is no socket file; else
\* the file is removed and "[OK] Daemon stopped" is printed. _daemon_restart
\* goes on with _daemon_start after its sleep
CliStop ==
    /\ cli.pc = "stop"
    /\ cli' = [cli EXCEPT !.pc = IF cli.cmd = "restart" THEN "start" ELSE "done",
                          !.stopped = IF IsRunning THEN "stopped" ELSE "not running",
                          !.target = sock_owner]
    /\ sock_owner' = 0
    /\ UNCHANGED <<own_vars, procs>>

\* the command returns
CliExit ==
    /\ cli.pc = "done"
    /\ cli' = NoCli
    /\ UNCHANGED <<own_vars, procs, sock_owner>>

\* SimplyPluralDaemon.start of process p: initialize() returned and
\* UnixSocketServer.start removes the file at the path, if any, and binds
ProcBind(p) ==
    /\ procs[p] = "seeding"
    /\ procs' = [procs EXCEPT ![p] = "serving"]
    /\ sock_owner' = p
    /\ UNCHANGED <<own_vars, cli>>

\* SIGINT or SIGTERM for process p: main() stops the daemon and
\* UnixSocketServer.stop removes the file at the path, if any
ProcStop(p) ==
    /\ procs[p] = "serving"
    /\ procs' = [procs EXCEPT ![p] = "stopped"]
    /\ sock_owner' = 0
    /\ UNCHANGED <<own_vars, cli>>

\* process p is killed: nothing is cleaned up
ProcKilled(p) ==
    /\ procs[p] \in {"seeding", "serving"}
    /\ procs' = [procs EXCEPT ![p] = "killed"]
    /\ UNCHANGED <<own_vars, sock_owner, cli>>

\* the daemons of a profile, started by hand and by auto-start
StartNext ==
    \/ CliBegin({"auto", "start"})
    \/ CliAutoStart
    \/ CliStart
    \/ CliExit
    \/ \E p \in ProcIds : ProcBind(p)
    \/ \E p \in ProcIds : ProcStop(p)
    \/ \E p \in ProcIds : ProcKilled(p)

SpecStart == ClientInit /\ [][StartNext]_vars

\* the daemons of a profile under `sp daemon start`, stop and restart
ProfileNext ==
    \/ CliBegin({"start", "stop", "restart"})
    \/ CliStart
    \/ CliStop
    \/ CliExit
    \/ \E p \in ProcIds : ProcBind(p)
    \/ \E p \in ProcIds : ProcStop(p)

SpecProfile == ClientInit /\ [][ProfileNext]_vars

\* the requests of a client that asks for the members
MemberQueries ==
    {p \in Payloads : p.kind = "object" /\ p.command = "members" /\ p.rid = "r1"}

\* connections served while member events arrive on the websocket
ConnStreamNext ==
    \/ Initialize
    \/ ServerBind
    \/ ServerStarted
    \/ ConnectOpened
    \/ Connect
    \/ arrived = 0 /\ RecvUpdate({"members"})
    \/ HuBegin
    \/ HuDerive
    \/ HuStamp
    \/ \E c \in ConnIds : Accept(c)
    \/ \E c \in ConnIds : ReadRequest(c, MemberQueries)
    \/ \E c \in ConnIds : ReadTimeout(c)
    \/ \E c \in ConnIds : Drained(c)
    \/ \E c \in ConnIds : Closed(c)

SpecConnStream == ClientInit /\ [][ConnStreamNext]_vars

SpecConnLive == ClientInit /\ [][ConnNext]_vars /\ ConnFairness

\* ================================================================ claims
Tracked == {"frontHistory", "members", "customFronts"}

\* the dict of a tracked target, now and before the latest handle_update
DictNow(target) ==
    IF target = "frontHistory" THEN front_history
    ELSE IF target = "members" THEN members
    ELSE IF target = "customFronts" THEN custom_fronts
    ELSE <<>>

DictPre(target) ==
    IF target = "frontHistory" THEN last.pre.front_history
    ELSE IF target = "members" THEN last.pre.members
    ELSE IF target = "customFronts" THEN last.pre.custom_fronts
    ELSE <<>>

FrontersNow == GetFronters(current_fronters, last_update_times).fronters

FrontersPre == GetFronters(last.pre.current_fronters, last_update_times).fronters

\* no handle_update is between its first and its last statement
BetweenCalls == phase = "running" /\ ws_pc \in {"disconnected", "recv", "loop"}

\* C1: whenever initialize() has returned and no update is half applied, the
\* list of get_fronters() is the live entries of front_history sorted by
\* startTime descending.
C1_ViewIsLiveLedger ==
    BetweenCalls => FrontersNow = RebuildFronters(front_history)

\* C2: no response of the socket server is computed while a frontHistory
\* event has changed front_history and current_fronters is still the list
\* from before the event; responses are computed only while the websocket
\* task waits in recv or is disconnected, and a fronting response lists each
\* live id of the ledger once and no other id.
C2_NoTornRead ==
    last_read.valid =>
      /\ ~last_read.torn
      /\ last_read.at \in {"disconnected", "recv"}
      /\ last_read.cmd = "fronting" => last_read.count = last_read.live

\* C2 witness: a fronting request answered between two frontHistory events,
\* with a fronter in the answer.
C2_Witness ==
    /\ last_read.valid /\ last_read.cmd = "fronting"
    /\ last_read.after = 1 /\ last_read.count = 1
    /\ calls_done = 2 /\ last.target = "frontHistory"

\* C3: handle_update takes the results in arrival order (frame by frame, array
\* order inside a frame, also across reconnects), each call returns before
\* the next begins and two calls never run at once.
C3_InArrivalOrder ==
    /\ hu_running <= 1
    /\ calls_done = Len(applied_log) - hu_running
    /\ \A i \in 1..Len(applied_log) - 1 : applied_log[i].seq < applied_log[i + 1].seq

\* C3 witness: two results applied, the second on a later connection.
C3_Witness ==
    /\ calls_done = 2
    /\ applied_log[1].conn = 0
    /\ applied_log[2].conn = 1

\* C4: a delete of X right after an upsert of X leaves X out of the dict of
\* its target (and the fronters list is the view of that ledger); an upsert
\* of X right after a delete of X leaves X in it with the upserted content
\* (and in the fronters list when the content is live).
C4_OrderSensitive ==
    last.done /\ last.target \in Tracked =>
      /\ last.op = "delete" /\ last.prior = "upsert" =>
           /\ last.id \notin Keys(DictNow(last.target))
           /\ last.target = "frontHistory" =>
                FrontersNow = RebuildFronters(front_history)
      /\ last.op # "delete" /\ last.prior = "delete" =>
           /\ last.id \in Keys(DictNow(last.target))
           /\ Lookup(DictNow(last.target), last.id) = last.content
           /\ last.target = "frontHistory" /\ Get(last.content, "live", FALSE) =>
                \E i \in 1..Len(FrontersNow) : FrontersNow[i] = last.content

\* C4 witness: a live fronter was inserted and then deleted.
C4_Witness ==
    /\ last.done /\ last.target = "frontHistory"
    /\ last.op = "delete" /\ last.prior = "upsert"
    /\ last.id \in Keys(last.pre.front_history)
    /\ Get(Lookup(last.pre.front_history, last.id), "live", FALSE)

\* C5: an insert or update event that repeats the event before it (same
\* target, id and content) leaves the ledger, the members and custom fronts
\* dicts and current_fronters as the first application left them.
C5_Idempotent ==
    last.done /\ last.dup /\ last.op # "delete" => Snapshot = last.pre

\* C5 witness: the same insert of a live fronter applied twice.
C5_Witness ==
    /\ last.done /\ last.dup /\ last.op = "insert"
    /\ last.target = "frontHistory"
    /\ Get(last.content, "live", FALSE)

\* C6: right after initialize() seeded fronters, every seeded entry is in
\* front_history (under its id when it has one), so later events merge with it.
C6_SeededInLedger ==
    /\ phase = "running"
    /\ init_info.fronters_from # "none"
    /\ update_count = 0
    => \A i \in 1..Len(init_info.seeded) :
         LET entry == init_info.seeded[i]
         IN  \E j \in 1..Len(front_history) :
               /\ front_history[j].v = Get(entry, "content", entry)
               /\ EntryId(entry) # NoId => front_history[j].k = EntryId(entry)

\* C7: a store initialized from the fronters cache that the previous daemon
\* process wrote in its frontHistory updates returns the fronters the old
\* store returned last, and each of them is an entry of the new ledger.
C7_WarmStart ==
    /\ phase = "running"
    /\ old_run.exists /\ old_run.wrote_cache
    /\ init_info.fronters_from = "cache"
    /\ update_count = 0
    => /\ FrontersNow = old_run.fronters
       /\ \A i \in 1..Len(FrontersNow) :
            \E j \in 1..Len(front_history) : front_history[j].v = FrontersNow[i]

\* C8: a delete for an id that its target's dict does not hold leaves the
\* ledger, the members dict, the custom fronts dict and the list of
\* get_fronters() unchanged.
C8_UnknownDeleteNoop ==
    /\ last.done /\ last.target \in Tracked
    /\ last.op = "delete"
    /\ last.id \notin Keys(DictPre(last.target))
    => /\ front_history = last.pre.front_history
       /\ members = last.pre.members
       /\ custom_fronts = last.pre.custom_fronts
       /\ FrontersNow = FrontersPre

C11_FrontersTimestamp ==
    /\ BetweenCalls /\ last.done /\ last.target = "frontHistory" =>
         GetFronters(current_fronters, last_update_times).timestamp >= last.at
    /\ phase = "running" /\ init_info.fronters_from # "none" =>
         GetFronters(current_fronters, last_update_times).timestamp > 0

\* C12: reconnect_delay is always within [1, 60], and the n-th backoff sleep
\* since the last successful authentication (or since run() began) lasts
\* min(2^(n-1), 60) seconds.
C12_Backoff ==
    /\ reconnect_delay \in WS_RECONNECT_INITIAL_DELAY..WS_RECONNECT_MAX_DELAY
    /\ run_pc = "backoff" =>
         run_hist.wait = Min(2 ^ (run_hist.seq - 1), 60)

\* C12 witness: the eighth consecutive sleep, the second one at the cap.
C12_Witness ==
    /\ run_pc = "backoff"
    /\ run_hist.seq = 8
    /\ run_hist.wait = 60
    /\ reconnect_count = 8

\* C13: during an authenticated session reconnect_delay is 1, and the sleep
\* that follows the end of a session lasts 1 second however many attempts
\* failed before the session.
C13_ResetOnAuth ==
    /\ run_pc = "session" => reconnect_delay = 1
    /\ run_pc = "backoff" /\ run_hist.last_fail \in SessionEnds => run_hist.wait = 1

\* C13 witness: a session that followed three failed attempts has ended and
\* the client sleeps.
C13_Witness ==
    /\ run_pc = "backoff"
    /\ run_hist.last_fail = "closed"
    /\ run_hist.pre_fails = 3
    /\ run_hist.wait = 1

\* C14: run() returns only after stop() was called, and after a connect
\* failure, an authentication timeout, an unexpected reply, a mid-stream
\* close, a keepalive error or a handler error (the client is in its backoff
\* sleep) a new connection attempt begins unless stop() is called.
C14_RetryForever ==
    /\ [](run_pc = "returned" => run_hist.stopped)
    /\ (/\ run_pc = "backoff"
        /\ run_hist.last_fail \in {"connect_failed", "auth_timeout", "unexpected",
                                    "closed", "keepalive_error", "handler_error"})
         ~> (run_pc = "connect" \/ run_hist.stopped)

\* C14 witness: a new attempt has begun after a handler error ended a
\* session that itself followed a failed attempt; stop() was not called.
C14_Witness ==
    /\ run_pc = "connect"
    /\ run_hist.last_fail = "handler_error"
    /\ run_hist.pre_fails = 1
    /\ ~run_hist.stopped

\* C15: after an 'Authentication violation' reply no connection attempt
\* begins, and the violation is reported once.
C15_NoRetryAfterViolation ==
    /\ ~run_hist.after_violation
    /\ run_hist.reports <= 1

\* C16: no connection attempt begins after stop() was called, whenever it
\* was called, and run() then returns.
C16_StopEndsRun ==
    /\ [](~run_hist.after_stop)
    /\ (run_hist.stopped /\ run_pc # "not_started") ~> (run_pc = "returned")

\* C17: after a shutdown signal, whenever it arrives, the daemon terminates:
\* main() returns, the run loop is not running, the socket is closed and its
\* file removed.
C17_ShutdownTerminates ==
    shutdown_event ~> /\ main_pc = "exited"
                      /\ run_pc \in {"not_started", "returned"}
                      /\ ~listening
                      /\ ~socket_file

\* history: UnixSocketServer.stop() has run; start() binds the socket file
\* right after seeding and only stop() removes it
ServerStopped == start_pc # "seeding" /\ ~socket_file

\* C18: the server is stopped only once stop() of the realtime client has
\* completed, and once the server is stopped no handle_update call changes
\* the store.
C18_ClientStopsFirst ==
    [][/\ socket_file /\ ~socket_file' => stop_pc' = "done" /\ ~running'
       /\ ServerStopped =>
            UNCHANGED store_vars /\ calls_done' = calls_done /\ hu_running' = hu_running]_vars

\* C18 witness: the shutdown came in a session that had applied an update;
\* stop() closed the open socket and then the server was stopped.
C18_Witness ==
    /\ ServerStopped
    /\ main_pc = "await_task"
    /\ stop_pc = "done"
    /\ run_hist.cut
    /\ run_hist.authed
    /\ calls_done >= 1

\* C19: the store is seeded only while the server is listening, and the run
\* loop begins only when the store is seeded and the server is listening.
C19_ServerFirst ==
    [][/\ phase = "new" /\ phase' = "running" => listening
       /\ run_pc = "not_started" /\ run_pc' # "not_started" =>
            phase = "running" /\ listening]_vars

\* C20: every response to a ping has status ok and the data {'pong': True},
\* whatever the realtime client and the store were at that time, and handling
\* a ping changes neither the store nor the realtime client.
C20_PingOk ==
    /\ [](last_read.valid /\ last_read.cmd = "ping" =>
            last_read.status = "ok" /\ last_read.pong)
    /\ [][last_read' # last_read /\ last_read'.cmd = "ping" =>
            UNCHANGED <<store_vars, ws_vars, client_vars>>]_vars

\* C20 witness: a ping was answered ok while the client, which never
\* authenticated, slept after a rejected token, with a store that was
\* seeded from nothing and is empty.
C20_Witness ==
    /\ last_read.valid
    /\ last_read.cmd = "ping"
    /\ last_read.status = "ok"
    /\ last_read.run = "backoff"
    /\ run_pc = "backoff"
    /\ run_hist.last_fail = "violation"
    /\ ~run_hist.authed
    /\ init_info.fronters_from = "none"
    /\ front_history = <<>> /\ members = <<>> /\ custom_fronts = <<>>

\* the words of a message
Range(words) == {words[j] : j \in 1..Len(words)}

\* the connection holds a request it read and the outcome of handling it
Handled(c) == conns[c].pc \in {"draining", "closing"} /\ conns[c].payload # NoPayload

\* C21: a switch or reload request is answered with status error and a
\* non-empty message that names the command and differs from the message of
\* every request that failed to decode; handling it changes neither the
\* store nor the realtime client.
C21_NotImplemented ==
    /\ [](\A c \in ConnIds :
            Handled(c) /\ conns[c].payload.command \in {"switch", "reload"} =>
              LET r == conns[c].resp
              IN  /\ r.status = "error"
                  /\ ~r.error.null /\ Len(r.error.words) > 0
                  /\ (IF conns[c].payload.command = "switch" THEN "Switch" ELSE "Reload")
                        \in Range(r.error.words)
                  /\ \A p \in Payloads :
                       Decodes(p) /\ p.kind # "empty" /\ ~Parses(p) =>
                         HandleClientOutcome(p).error # r.error)
    /\ [][\A c \in ConnIds :
            conns[c].pc = "reading" /\ conns'[c].payload.command \in {"switch", "reload"} =>
              UNCHANGED <<store_vars, ws_vars, client_vars>>]_vars

\* C21 witness: a reload request with a request_id was answered during an
\* authenticated session.
C21_Witness ==
    \E c \in ConnIds :
        /\ Handled(c)
        /\ conns[c].payload.command = "reload"
        /\ conns[c].payload.rid = "r1"
        /\ conns[c].resp.status = "error"
        /\ run_pc = "session"

\* C22: a response carries the request_id of the request it answers
\* whenever the request, an object, supplied one: for ok and error responses
\* and for a request with an unknown or a missing command.
C22_EchoesRequestId ==
    \A c \in ConnIds :
        Handled(c) /\ conns[c].written = 1 /\ conns[c].payload.kind = "object"
          /\ conns[c].payload.rid # NoRid =>
            conns[c].resp.request_id = conns[c].payload.rid

\* C23: a response has exactly one of data and error: ok comes with data
\* and no error, error with a non-empty message and no data.
C23_DataXorError ==
    \A c \in ConnIds :
        Handled(c) /\ conns[c].written = 1 =>
          LET r == conns[c].resp
          IN  /\ r.status \in {"ok", "error"}
              /\ r.status = "ok" => ~r.data.null /\ r.error.null
              /\ r.status = "error" =>
                   ~r.error.null /\ Len(r.error.words) > 0 /\ r.data.null

\* C23 witness: one connection got an ok response with data, the other the
\* error of handle_client for text that is not JSON.
C23_Witness ==
    /\ Handled(1) /\ conns[1].resp.status = "ok" /\ conns[1].payload.command = "members"
    /\ Handled(2) /\ conns[2].resp.status = "error" /\ conns[2].payload.kind = "bad_json"

\* C24: a non-empty request that cannot be decoded is answered with one
\* error response, and the server still accepts connections afterwards.
C24_DecodeError ==
    \A c \in ConnIds :
        Handled(c) /\ conns[c].payload.kind # "empty" /\ ~Parses(conns[c].payload) =>
          /\ conns[c].written = 1
          /\ conns[c].resp.status = "error"
          /\ Accepting

\* C25: a connection gets at most one response, and one that delivered a
\* non-empty request is not closed without a response.
C25_OneResponse ==
    \A c \in ConnIds :
        /\ conns[c].written <= 1
        /\ conns[c].pc = "closing" /\ conns[c].payload.kind \notin {"none", "empty"} =>
             conns[c].written = 1

\* C26: every accepted connection is eventually closed by the server,
\* whether the client sends nothing or sends a request and never reads the
\* response.
C26_EventuallyClosed ==
    \A c \in ConnIds :
        (conns[c].pc \in {"reading", "draining"}) ~> (conns[c].pc = "closed")

\* the client of the connection is stalled: connected and sending nothing,
\* or not reading its response
Stalled(c) ==
    \/ conns[c].pc = "reading" /\ conns[c].client = "silent"
    \/ conns[c].pc = "draining" /\ conns[c].stuck

\* C27: while the client of one connection is stalled, the server can still
\* accept another connection, read and answer the request of another
\* connection, and take the next event from the websocket.
C27_Independent ==
    \A c \in ConnIds :
        Stalled(c) =>
          /\ \A d \in ConnIds \ {c} :
               /\ Accepting /\ Suspends(ws_pc) /\ conns[d].pc = "none"
                    /\ (\A e \in 1..(d - 1) : conns[e].pc # "none")
                    => ENABLED Accept(d)
               /\ Suspends(ws_pc) /\ conns[d].pc = "reading" /\ conns[d].client # "silent"
                    => ENABLED ReadRequest(d, MemberQueries)
               /\ Suspends(ws_pc) /\ conns[d].pc = "draining" /\ ~conns[d].stuck
                    => ENABLED Drained(d)
          /\ ws_pc = "recv" /\ ws_open /\ arrived < MaxUpdates
               => ENABLED RecvUpdate({"members"})

\* C27 witness: the first client has sent nothing since it connected; the
\* second client, which connected later, was answered, and a member event
\* has just been applied.
C27_Witness ==
    /\ conns[1].pc = "reading" /\ conns[1].client = "silent"
    /\ Handled(2) /\ conns[2].written = 1 /\ conns[2].resp.status = "ok"
    /\ ws_pc = "hu_stamp" /\ members # <<>>

\* C28: a daemon process that serves owns the listener at the socket path
\* of its profile: no start of another instance and no stop of an instance
\* removes or replaces it.
C28_OwnsSocket == \A p \in ProcIds : procs[p] = "serving" => sock_owner = p

\* C29: when `sp daemon restart` has reported that it stopped the daemon
\* and has started one, exactly one daemon process of the profile is alive.
C29_OneDaemon ==
    cli.cmd = "restart" /\ cli.pc = "done" /\ cli.stopped = "stopped" =>
        Cardinality(Running) = 1

\* C30: a cache write that raises during initialize() does not change what
\* initialize() leaves in memory: the ledger, the members and custom fronts
\* maps and the current fronters equal those of the same initialize() with
\* a cache whose writes return.
C30_WriteFailureIgnored ==
    phase = "running" /\ init_info.wfail # 0 =>
        [cf |-> current_fronters, fh |-> front_history, mem |-> members,
         cus |-> custom_fronts] = init_info.working

\* what the cache read number j returned to initialize()
CacheGave(j) ==
    LET seed == init_info.seed
    IN  IF cache /\ (seed.cfail = 0 \/ j < seed.cfail)
        THEN CacheGet(seed.files[j], seed.exp[IF j = 1 THEN 1 ELSE 2])
        ELSE <<>>

\* what the REST request number j delivered before one raised
RestGave(j) ==
    IF j < init_info.seed.fail_at THEN init_info.seed.rest[j] ELSE <<>>

C35_OneLoopEach ==
    /\ tasks.keepalive <= 1 /\ tasks.handler <= 1
    /\ run_pc = "session" => tasks = [keepalive |-> 1, handler |-> 1]
    /\ run_pc \in {"backoff", "connect", "auth", "returned"} => tasks = NoTasks
    /\ run_pc \in {"backoff", "connect"} /\ run_hist.seq = 1
         /\ run_hist.last_fail \in SessionEnds \cup {"stopped"}
         => ~ws_open /\ ~authenticated

\* C35 witness: a second session runs after the first ended with an error
\* of the keepalive send.
C35_Witness ==
    /\ run_pc = "session" /\ reconnect_count = 1
    /\ run_hist.last_fail = "keepalive_error"
    /\ tasks.keepalive = 1

\* C36: no upstream connection is open during a backoff wait or when the
\* next attempt begins: a connection whose authentication failed is closed
\* first.
C36_OneUpstream == run_pc \in {"backoff", "connect"} => ~ws_open

\* message_handler is done with the frame it received
FrameHandled == rx.valid /\ ws_pc \notin {"loop", "hu_derive", "hu_stamp"}

\* C32: a malformed frame (text that is not JSON, JSON that is not an object,
\* a msg that is not a string, a results element that is not an object) does
\* not end the message loop.
C32_MalformedDropped ==
    /\ rx.valid
    /\ \/ rx.f.json # "object"
       \/ ~rx.f.msg_is_str
       \/ \E j \in 1..Len(rx.f.results) : ~rx.f.results[j].obj
    => rx.outcome # "raised" /\ ws_pc # "handler_raised"

\* C33: when the handler is done with a frame that is a JSON object with a
\* string msg, the callback ran once per element of results, the last call
\* with the fields of the last element ('' and {} for missing ones), if msg
\* is 'update' in any letter case, and not at all otherwise.
C33_OncePerResult ==
    FrameHandled /\ rx.f.json = "object" /\ rx.f.msg_is_str =>
        IF rx.f.msg \in {"update", "Update"}
        THEN /\ calls_done - rx.calls_before = Len(rx.f.results)
             /\ rx.f.results # <<>> =>
                  LET e == rx.f.results[Len(rx.f.results)].d
                  IN  /\ last.target = rx.f.target
                      /\ last.op = (IF "operationType" \in DOMAIN e
                                     THEN e.operationType ELSE "")
                      /\ last.id = (IF "id" \in DOMAIN e THEN e.id ELSE "")
                      /\ last.content = (IF "content" \in DOMAIN e
                                          THEN e.content ELSE EmptyDict)
        ELSE calls_done = rx.calls_before

\* C38: an update frame whose payload holds 'pong' or 'authenticated' in
\* some letter case, here in a member name, is applied like any other.
C38_NoUpdateLost ==
    /\ rx.valid /\ rx.f.json = "object" /\ rx.f.msg_is_str
    /\ rx.f.msg \in {"update", "Update"}
    /\ \A j \in 1..Len(rx.f.results) : rx.f.results[j].obj
    /\ \E j \in 1..Len(rx.f.results) :
         "content" \in DOMAIN rx.f.results[j].d
         /\ rx.f.results[j].d.content = ePongo
    => rx.outcome = "applied"

\* C34: what from_dict reads back from the JSON text of a Request has its
\* command, args, request_id and version; what it reads back from the text of
\* a Response has its status, data, error and request_id.
C34_RoundTrip ==
    wire.pc = "got" =>
        IF wire.kind = "request"
        THEN /\ wire.got.command = wire.obj.command
             /\ wire.got.args = wire.obj.args
             /\ wire.got.request_id = wire.obj.request_id
             /\ wire.got.version = wire.obj.version
        ELSE /\ wire.got.status = wire.obj.status
             /\ wire.got.data = wire.obj.data
             /\ wire.got.error = wire.obj.error
             /\ wire.got.request_id = wire.obj.request_id

C34_Witness ==
    /\ wire.pc = "got"
    /\ wire.kind = "request"
    /\ wire.obj.command.value = "switch"
    /\ wire.got.args = PyDict(<<[k |-> "entities", v |-> PyList(<<PyStr("Alice"), PyStr("Bob")>>)]>>)

\* C37: after a frontHistory event with null content the store is as before
\* the event or the view is the live ledger, and after a later event with a
\* live entry as content that entry is in get_fronters().
C37_UnusableContained ==
    /\ ws_pc \in {"recv", "disconnected"}
    /\ last.valid /\ last.done /\ last.target = "frontHistory"
    => /\ last.content = cNull =>
            \/ front_history = last.pre.front_history
            \/ FrontersNow = RebuildFronters(front_history)
       /\ last.op # "delete" /\ last.content # cNull /\ Get(last.content, "live", FALSE) =>
            \E j \in 1..Len(FrontersNow) : FrontersNow[j] = last.content

\* the ledger as a map from id to entry
AsMap(d) == { d[i] : i \in 1..Len(d) }

\* C39: two ledgers that hold the same entries under the same ids give the
\* same current-fronters sequence, whatever the order of their events.
C39_OrderFromLedger ==
    AsMap(twin.a) = AsMap(twin.b) => RebuildFronters(twin.a) = RebuildFronters(twin.b)

\* C40: the response to a well-formed request is the one handle_command
\* gives for it, also when the read returned only the first part of it.
C40_SplitRequestServed ==
    \A c \in ConnIds :
        /\ conns[c].pc = "draining"
        /\ conns[c].payload.kind \in {"object", "prefix"}
        /\ conns[c].payload.command \in Commands
        => conns[c].resp = HandleCommand(RequestOf([conns[c].payload EXCEPT !.kind = "object"]))

====
